---------------------------- MODULE Spec2Model ----------------------------
(***************************************************************************)
(* Model of the company service (gartstein/xm): the AuthGate shared by the *)
(* gRPC interceptor and the HTTP middleware, the transport handlers, the   *)
(* lifecycle orchestrator (CompanyService), the GORM repository and the    *)
(* Kafka event producer.                                                   *)
(*                                                                         *)
(* SpecAuth: one call at a time through the AuthGate of either transport.  *)
(* Spec:     concurrent orchestrator calls against the shared store, with  *)
(*           the detached notification goroutines, the producer queue, the *)
(*           producer's worker and its shutdown.                           *)
(***************************************************************************)
EXTENDS Integers, Sequences, FiniteSets, TLC

VARIABLES
    authCall,   \* per transport, the last call through the AuthGate and its outcome
    store,      \* the companies table: a set of rows, primary key ID
    nextID,     \* how many identifiers uuid.New has handed out, plus one
    created,    \* history: every ID a row was ever inserted under
    deleted,    \* history: every ID a Delete call has returned success for
    started,    \* how many orchestrator calls have started
    calls,      \* per execution slot: the call running there, its locals and result
    spawned,    \* the detached goroutines that have not yet run Produce
    events,     \* Producer.events: the buffered channel, oldest first
    warnings,   \* the "queue full, dropping event" warnings logged by Produce
    produced,   \* history: the Produce calls made, in the order they ran
    worker,     \* the eventLoop goroutine: where it is, the event it holds, and
                \* whether closeChan was closed when it received that event
    closeChan,  \* Producer.closeChan: "open" or "closed"
    writer,     \* the KafkaWriter: whether Close was called, the WriteMessages calls
    errlog,     \* the errors logged by sendEvent and Close
    server      \* handlers.Server: Start, Stop, the two serving goroutines, the
                \* listeners and the calls in flight on them

authVars == <<authCall>>
emVars == <<produced, worker, closeChan, writer, errlog>>
svcVarsButServer == <<store, nextID, created, deleted, started, calls, spawned,
                      events, warnings, produced, worker, closeChan, writer, errlog>>
svcVars == <<store, nextID, created, deleted, started, calls, spawned, events,
             warnings, produced, worker, closeChan, writer, errlog, server>>
vars == <<authCall, store, nextID, created, deleted, started, calls, spawned, events,
          warnings, produced, worker, closeChan, writer, errlog, server>>

-----------------------------------------------------------------------------
(* Strings: strings.HasPrefix and strings.TrimPrefix of the Go library.    *)

HasPrefix(s, prefix) ==
    /\ Len(s) >= Len(prefix)
    /\ SubSeq(s, 1, Len(prefix)) = prefix

TrimPrefix(s, prefix) ==
    IF HasPrefix(s, prefix) THEN SubSeq(s, Len(prefix) + 1, Len(s)) ELSE s

-----------------------------------------------------------------------------
(* Credentials.  A token string stands for a compact JWT; ParseJWT gives   *)
(* what jwt.Parse reads from it: whether it has three decodable segments,  *)
(* its "alg" header, the key its signature was made with and its claims.   *)

JwtSecret   == "test-secret"     \* the shared secret given at construction
OtherSecret == "wrong-secret"
UserID      == "test-user"

HMACMethods == {"HS256", "HS384", "HS512"}   \* *jwt.SigningMethodHMAC

Malformed == [wellFormed |-> FALSE, alg |-> "", key |-> "", sub |-> "", exp |-> "none"]

Jwt(alg, key, exp) ==
    [wellFormed |-> TRUE, alg |-> alg, key |-> key, sub |-> UserID, exp |-> exp]

ParseJWT(tokenString) ==
    CASE tokenString = "jwt.valid"    -> Jwt("HS256", JwtSecret, "future")
      [] tokenString = "jwt.hs384"    -> Jwt("HS384", JwtSecret, "future")
      [] tokenString = "jwt.noexp"    -> Jwt("HS256", JwtSecret, "none")
      [] tokenString = "jwt.expired"  -> Jwt("HS256", JwtSecret, "past")
      [] tokenString = "jwt.wrongkey" -> Jwt("HS256", OtherSecret, "future")
      [] tokenString = "jwt.rs256"    -> Jwt("RS256", JwtSecret, "future")
      [] tokenString = "jwt.none"     -> Jwt("none", "", "future")
      [] OTHER                        -> Malformed

TokenStrings ==
    {"jwt.valid", "jwt.hs384", "jwt.noexp", "jwt.expired", "jwt.wrongkey",
     "jwt.rs256", "jwt.none", "invalid.token.string"}

\* Authorization values a client may send.
HeaderValues ==
    {"Bearer " \o t : t \in TokenStrings}
        \cup {"Bearer ", "", "InvalidPrefix jwt.valid", "jwt.valid"}

\* The values of one header / metadata key: none, or one value.
HeaderLists == {<<>>} \cup {<<h>> : h \in HeaderValues}

\* Incoming metadata of a unary call: ok is what metadata.FromIncomingContext
\* reports, authorization the values under that key.
MD(hdrs) == [ok |-> TRUE, authorization |-> hdrs]
NoMetadata == [ok |-> FALSE, authorization |-> <<>>]
Metadatas == {MD(h) : h \in HeaderLists} \cup {NoMetadata}
NoToken    == "<none>"
NoClaims   == [sub |-> "", exp |-> "none"]

AuthOk(token, claims) == [ok |-> TRUE, token |-> token, claims |-> claims, msg |-> ""]
AuthErr(msg) == [ok |-> FALSE, token |-> NoToken, claims |-> NoClaims, msg |-> msg]

\* validateToken with the expiry validation left out.
ValidateTokenNoExpiry(tokenString, secret) ==
    LET t == ParseJWT(tokenString) IN
    IF ~t.wellFormed THEN AuthErr("invalid token: token is malformed")
    ELSE IF t.alg \notin HMACMethods THEN AuthErr("invalid token: unexpected signing method")
    ELSE IF t.key # secret THEN AuthErr("invalid token: signature is invalid")
    ELSE AuthOk(tokenString, [sub |-> t.sub, exp |-> t.exp])

\* validateToken: jwt.Parse with a key function that accepts HMAC methods
\* only and returns the secret; then the signature and the claims (exp) are
\* validated by the library.
ValidateToken(tokenString, secret) ==
    LET t == ParseJWT(tokenString) IN
    IF ~t.wellFormed THEN AuthErr("invalid token: token is malformed")
    ELSE IF t.alg \notin HMACMethods THEN AuthErr("invalid token: unexpected signing method")
    ELSE IF t.key # secret THEN AuthErr("invalid token: signature is invalid")
    ELSE IF t.exp = "past" THEN AuthErr("invalid token: token is expired")
    ELSE AuthOk(tokenString, [sub |-> t.sub, exp |-> t.exp])

\* extractTokenFromMetadata: md.Get("authorization"), first value.
ExtractTokenFromMetadata(md) ==
    LET authHeaders == md.authorization IN
    IF Len(authHeaders) = 0 THEN AuthErr("authorization header missing")
    ELSE LET headerValue == authHeaders[1] IN
         IF ~HasPrefix(headerValue, "Bearer ")
         THEN AuthErr("invalid authorization format: missing Bearer prefix")
         ELSE LET tokenString == TrimPrefix(headerValue, "Bearer ") IN
              IF tokenString = ""
              THEN AuthErr("invalid authorization format: empty token")
              ELSE AuthOk(tokenString, NoClaims)

\* r.Header.Get("Authorization"): the first value, "" when there is none.
HeaderGet(hdrs) == IF Len(hdrs) = 0 THEN "" ELSE hdrs[1]

\* extractTokenFromHeader.
ExtractTokenFromHeader(hdrs) ==
    LET authHeader == HeaderGet(hdrs) IN
    IF authHeader = "" THEN AuthErr("authorization header required")
    ELSE LET tokenString == TrimPrefix(authHeader, "Bearer ") IN
         IF tokenString = "" THEN AuthErr("invalid authorization format")
         ELSE AuthOk(tokenString, NoClaims)


-----------------------------------------------------------------------------
(* The service definition: package definition.v1, service CompanyService.  *)

Operations == {"CreateCompany", "UpdateCompany", "DeleteCompany", "GetCompany"}
ProtectedOperations == {"CreateCompany", "UpdateCompany", "DeleteCompany"}

\* The full method name under which the generated code registers an rpc.
ServiceMethod(op) == "/definition.v1.CompanyService/" \o op

ServiceMethods == {ServiceMethod(op) : op \in Operations}

\* The protected-method map built by NewAuthInterceptor.
ProtectedMethods ==
    {"/company.v1.CompanyService/CreateCompany",
     "/company.v1.CompanyService/UpdateCompany",
     "/company.v1.CompanyService/DeleteCompany"}

Unauthenticated == "Unauthenticated"
StatusUnauthorized == "401 Unauthorized"
StatusNotFound == "404 Not Found"
OK == "OK"

NotRun == [ok |-> FALSE, token |-> NoToken, claims |-> NoClaims, msg |-> "not run"]

GateResult(protected, extract, passed, claims, code) ==
    [protected |-> protected, extract |-> extract, passed |-> passed,
     claims |-> claims, code |-> code]

\* Interceptor.Unary: the decision for one call; passed means handler(ctx, req)
\* is called, claims is ctx.Value(userContextKey) at that point.
Unary(fullMethod, md) ==
    IF fullMethod \in ProtectedMethods
    THEN IF ~md.ok
         THEN GateResult(TRUE, NotRun, FALSE, NoClaims, Unauthenticated)
         ELSE LET ext == ExtractTokenFromMetadata(md) IN
              IF ~ext.ok
              THEN GateResult(TRUE, ext, FALSE, NoClaims, Unauthenticated)
              ELSE LET v == ValidateToken(ext.token, JwtSecret) IN
                   IF ~v.ok
                   THEN GateResult(TRUE, ext, FALSE, NoClaims, Unauthenticated)
                   ELSE GateResult(TRUE, ext, TRUE, v.claims, OK)
    ELSE GateResult(FALSE, NotRun, TRUE, NoClaims, OK)

\* protectedRoutes[r.Method]: the zero value "" for a method not in the map.
ProtectedRoute(method) ==
    CASE method = "POST"   -> "/v1/companies"
      [] method = "PATCH"  -> "/v1/companies/"
      [] method = "DELETE" -> "/v1/companies/"
      [] OTHER             -> ""

IsProtectedRequest(method, path) == HasPrefix(path, ProtectedRoute(method))

\* HTTPMiddleware: passed means next.ServeHTTP(w, r) is called.
HTTPMiddleware(method, path, hdrs) ==
    IF ~IsProtectedRequest(method, path)
    THEN GateResult(FALSE, NotRun, TRUE, NoClaims, OK)
    ELSE LET ext == ExtractTokenFromHeader(hdrs) IN
         IF ~ext.ok
         THEN GateResult(TRUE, ext, FALSE, NoClaims, StatusUnauthorized)
         ELSE LET v == ValidateToken(ext.token, JwtSecret) IN
              IF ~v.ok
              THEN GateResult(TRUE, ext, FALSE, NoClaims, StatusUnauthorized)
              ELSE GateResult(TRUE, ext, TRUE, v.claims, OK)

\* The gateway mux built from the google.api.http options of the service:
\* the operation an HTTP request is translated to.
NoRoute == "no-route"
HasID(path) ==
    HasPrefix(path, "/v1/companies/") /\ Len(path) > Len("/v1/companies/")

Route(method, path) ==
    CASE method = "POST" /\ path = "/v1/companies" -> "CreateCompany"
      [] method = "PATCH" /\ HasID(path)           -> "UpdateCompany"
      [] method = "DELETE" /\ HasID(path)          -> "DeleteCompany"
      [] method = "GET" /\ HasID(path)             -> "GetCompany"
      [] OTHER                                     -> NoRoute

HTTPMethods == {"POST", "PATCH", "DELETE", "GET"}
HTTPPaths == {"/v1/companies", "/v1/companies/u1"}

\* The method names a unary call may carry: the registered ones, and the
\* ones the interceptor's map holds (as the interceptor's unit tests do).
FullMethods == ServiceMethods \cup ProtectedMethods

NoAuthCall ==
    [transport |-> "none", method |-> "", path |-> "", md |-> NoMetadata,
     op |-> NoRoute, gate |-> GateResult(FALSE, NotRun, FALSE, NoClaims, OK),
     rpc |-> GateResult(FALSE, NotRun, FALSE, NoClaims, OK),
     handlerInvoked |-> FALSE, code |-> OK]

\* A unary call on the primary transport: the interceptor, then the handler.
RPCCall(fullMethod, md) ==
    LET g == Unary(fullMethod, md) IN
    authCall' = [authCall EXCEPT !["rpc"] =
                [transport |-> "rpc", method |-> fullMethod, path |-> "",
                 md |-> md,
                 op |-> IF \E o \in Operations : ServiceMethod(o) = fullMethod
                        THEN CHOOSE o \in Operations : ServiceMethod(o) = fullMethod
                        ELSE NoRoute,
                 gate |-> g, rpc |-> g,
                 handlerInvoked |-> g.passed, code |-> g.code]]

\* A request on the HTTP listener: the middleware, then the gateway mux, which
\* calls the primary transport's endpoint with the Authorization header
\* forwarded as "authorization" metadata (RegisterHTTPGateway).
HTTPCall(method, path, hdrs) ==
    LET g   == HTTPMiddleware(method, path, hdrs)
        op  == Route(method, path)
        rpc == IF g.passed /\ op # NoRoute
               THEN Unary(ServiceMethod(op), MD(hdrs))
               ELSE GateResult(FALSE, NotRun, FALSE, NoClaims, OK)
    IN
    authCall' = [authCall EXCEPT !["http"] =
                [transport |-> "http", method |-> method, path |-> path,
                 md |-> MD(hdrs), op |-> op, gate |-> g, rpc |-> rpc,
                 handlerInvoked |-> g.passed /\ op # NoRoute /\ rpc.passed,
                 code |-> IF ~g.passed THEN g.code
                          ELSE IF op = NoRoute THEN StatusNotFound
                          ELSE IF ~rpc.passed THEN StatusUnauthorized
                          ELSE OK]]

-----------------------------------------------------------------------------
(* Domain model (package models) and the protobuf messages.                *)

MaxNameLen == 15        \* CreateCompany: len(company.Name) > 15
MaxDescLen == 3000      \* CreateCompany: len(company.Description) > 3000

\* Bounds of the model.
MaxCalls    == 3        \* orchestrator calls started in one behaviour
MaxInFlight == 2        \* calls executing concurrently
MaxCreates  == 2        \* identifiers uuid.New hands out
QueueCapacity == 2      \* capacity of Producer.events (1000 in NewProducer)

\* uuid.UUID values, written in their string form.
NilUUID == "00000000-0000-0000-0000-000000000000"
NewUUID(n) == "u" \o ToString(n)        \* the n-th value returned by uuid.New
UnknownUUID == NewUUID(0)               \* a well-formed UUID no call was given
UUIDs == {NilUUID} \cup {NewUUID(n) : n \in 0..(MaxCreates + 1)}

\* uuid.Parse: ok for the string form of a UUID, an error otherwise.
ParseUUID(str) ==
    IF str \in UUIDs THEN [ok |-> TRUE, id |-> str] ELSE [ok |-> FALSE, id |-> NilUUID]

\* models.CompanyType
Corporations       == "CORPORATIONS"
NonProfit          == "NON_PROFIT"
Cooperative        == "COOPERATIVE"
SoleProprietorship == "SOLE_PROPRIETORSHIP"
CompanyTypes == {Corporations, NonProfit, Cooperative, SoleProprietorship}

\* pb.CompanyType.String(): the name of an enum number.
CompanyTypeName(n) ==
    CASE n = 0 -> "UNSPECIFIED"
      [] n = 1 -> "CORPORATIONS"
      [] n = 2 -> "NON_PROFIT"
      [] n = 3 -> "COOPERATIVE"
      [] n = 4 -> "SOLE_PROPRIETORSHIP"
      [] OTHER -> ToString(n)

\* pb.CompanyType_value[name]: the enum number of a name, 0 for a missing key.
CompanyTypeValue(name) ==
    CASE name = "CORPORATIONS"        -> 1
      [] name = "NON_PROFIT"          -> 2
      [] name = "COOPERATIVE"         -> 3
      [] name = "SOLE_PROPRIETORSHIP" -> 4
      [] OTHER                        -> 0

\* Strings.  A name is written out; a long text is Text(ch, n), the character
\* ch repeated n times.  Go's len counts the bytes of the UTF-8 encoding.
Utf8Width(ch) == IF ch = "é" THEN 2 ELSE 1
EmptyText == [ch |-> "", n |-> 0]
Text(ch, n) == IF n = 0 THEN EmptyText ELSE [ch |-> ch, n |-> n]

RECURSIVE GoLen(_)
GoLen(str) ==
    IF str = "" THEN 0
    ELSE Utf8Width(SubSeq(str, 1, 1)) + GoLen(SubSeq(str, 2, Len(str)))

GoLenText(text) == text.n * Utf8Width(text.ch)

\* models.Company; the timestamps are left out.
Company(id, name, description, employees, registered, type) ==
    [ID |-> id, Name |-> name, Description |-> description,
     Employees |-> employees, Registered |-> registered, Type |-> type]

NoCompany == Company("<nil>", "", EmptyText, 0, FALSE, "")      \* a nil *models.Company

MutableFields == {"Name", "Description", "Employees", "Registered", "Type"}

\* utils.Ptr and the nil pointer.
Ptr(value) == <<value>>
NilPtr == <<>>

\* models.CompanyUpdate
CompanyUpdate(id, name, description, employees, registered, type) ==
    [ID |-> id, Name |-> name, Description |-> description,
     Employees |-> employees, Registered |-> registered, Type |-> type]

NoUpdate == CompanyUpdate("<nil>", NilPtr, NilPtr, NilPtr, NilPtr, NilPtr)

\* pb.Company: proto3 scalar fields, a field the client left out holds its
\* zero value.
PbCompany(name, description, employees, registered, type) ==
    [Name |-> name, Description |-> description, Employees |-> employees,
     Registered |-> registered, Type |-> type]

PbZero == PbCompany("", EmptyText, 0, FALSE, 0)
NoPb == [Name |-> "<nil>", Description |-> EmptyText, Employees |-> 0,
         Registered |-> FALSE, Type |-> 0]              \* a nil *pb.Company

\* The message the transport decodes from a request body that sets exactly
\* the fields in present, with the values of vals.
Decode(present, vals) ==
    [f \in MutableFields |-> IF f \in present THEN vals[f] ELSE PbZero[f]]

\* normalizeCompanyType
NormalizeCompanyType(companyType) ==
    CASE companyType = 1 -> Corporations
      [] companyType = 2 -> NonProfit
      [] companyType = 3 -> Cooperative
      [] companyType = 4 -> SoleProprietorship
      [] OTHER           -> Corporations

\* protoToModel (for a non-nil message)
ProtoToModel(pbCompany) ==
    Company(NilUUID, pbCompany.Name, pbCompany.Description, pbCompany.Employees,
            pbCompany.Registered, NormalizeCompanyType(pbCompany.Type))

\* protoToUpdate (for a non-nil message): every field becomes a non-nil pointer.
ProtoToUpdate(pbCompany, id) ==
    CompanyUpdate(id, Ptr(pbCompany.Name), Ptr(pbCompany.Description),
                  Ptr(pbCompany.Employees), Ptr(pbCompany.Registered),
                  Ptr(CompanyTypeName(pbCompany.Type)))

\* modelToProto
ModelToProto(company) ==
    [Id |-> company.ID, Name |-> company.Name, Description |-> company.Description,
     Employees |-> company.Employees, Registered |-> company.Registered,
     Type |-> CompanyTypeValue(company.Type)]

-----------------------------------------------------------------------------
(* Errors: an error is the chain from the outermost wrapper to the         *)
(* innermost error, as fmt.Errorf("...%w") builds it.                      *)

ErrNotFound      == "not found"
ErrDuplicateName == "duplicate name"
ErrInvalidInput  == "invalid input"
ErrDatabase      == "ERROR: duplicate key value violates unique constraint"

NoError == <<>>
Sentinel(e) == <<e>>
Wrap(msg, err) == <<msg>> \o err

\* A comparison that does not unwrap the error.
ErrorsIsOutermost(err, target) == err # <<>> /\ err[1] = target

\* errors.Is
ErrorsIs(err, target) == \E i \in DOMAIN err : err[i] = target

\* gRPC status codes of the handlers.
CodeOK == "OK"
CodeNotFound == "NotFound"
CodeAlreadyExists == "AlreadyExists"
CodeInvalidArgument == "InvalidArgument"
CodeInternal == "Internal"
NoCode == "-"       \* the call did not come through a transport handler

\* mapServiceError: the status code
MapServiceError(err) ==
    CASE ErrorsIs(err, ErrNotFound)      -> CodeNotFound
      [] ErrorsIs(err, ErrDuplicateName) -> CodeAlreadyExists
      [] ErrorsIs(err, ErrInvalidInput)  -> CodeInvalidArgument
      [] OTHER                           -> CodeInternal

\* err.Error(): the texts of the chain; %v of an error prints the same.
ErrorText(err) == err

InternalServerError == "internal server error"

\* mapServiceError: the message of the status it returns.
StatusMessage(err) ==
    IF MapServiceError(err) = CodeInternal
    THEN <<InternalServerError>> \o ErrorText(err)
    ELSE ErrorText(err)

-----------------------------------------------------------------------------
(* The repository (package db): GORM over the companies table migrated     *)
(* from models.Company, whose only key is the primary key ID.              *)

Rows(st, id) == {r \in st : r.ID = id}

\* An existence check that finds nothing.
CompanyNeverExists(st, name) == FALSE

\* Repository.CompanyExistsByName
CompanyExistsByName(st, name) == \E r \in st : r.Name = name

\* Repository.GetCompany: First(&company, "id = ?", id)
RepoGetCompany(st, id) ==
    IF Rows(st, id) = {}
    THEN [err |-> Sentinel(ErrNotFound), company |-> NoCompany]
    ELSE [err |-> NoError, company |-> CHOOSE r \in Rows(st, id) : TRUE]

\* Repository.CreateCompany: INSERT; a second row under the same primary key
\* is refused by the database (the error is not translated, gorm.Config{}).
RepoCreateCompany(st, company) ==
    IF Rows(st, company.ID) # {}
    THEN [err |-> Sentinel(ErrDatabase), store |-> st]
    ELSE [err |-> NoError, store |-> st \cup {company}]

\* Updates(update) with a struct: the column of every non-zero field, that is
\* of every non-nil pointer, is set to the value pointed to.
GormUpdates(row, update) ==
    [f \in DOMAIN row |->
        IF f \in MutableFields /\ update[f] # NilPtr THEN update[f][1] ELSE row[f]]

\* An update that reports success when it affected no row.
RepoUpdateIgnoresMissing(st, update) ==
    [err |-> NoError,
     store |-> (st \ Rows(st, update.ID))
                   \cup {GormUpdates(r, update) : r \in Rows(st, update.ID)}]

\* Repository.UpdateCompany: UPDATE ... WHERE id = update.ID; no row affected
\* is ErrNotFound.
RepoUpdateCompany(st, update) ==
    IF Rows(st, update.ID) = {}
    THEN [err |-> Sentinel(ErrNotFound), store |-> st]
    ELSE [err |-> NoError,
          store |-> (st \ Rows(st, update.ID))
                        \cup {GormUpdates(r, update) : r \in Rows(st, update.ID)}]

\* A delete that does not look at the number of rows affected.
RepoDeleteIgnoresRowsAffected(st, id) ==
    [err |-> NoError, store |-> st \ Rows(st, id)]

\* A delete that reports success and leaves the row in place.
RepoDeleteKeepsRow(st, id) ==
    IF Rows(st, id) = {}
    THEN [err |-> Sentinel(ErrNotFound), store |-> st]
    ELSE [err |-> NoError, store |-> st]

\* Repository.DeleteCompany: DELETE ... WHERE id = ?; no row affected is
\* ErrNotFound.
RepoDeleteCompany(st, id) ==
    IF Rows(st, id) = {}
    THEN [err |-> Sentinel(ErrNotFound), store |-> st]
    ELSE [err |-> NoError, store |-> st \ Rows(st, id)]

-----------------------------------------------------------------------------
(* The orchestrator (controller.CompanyService) and the transport handlers *)
(* (handlers.CompanyHandler).  A call runs in an execution slot; it takes  *)
(* one step per access to the shared store.                                *)

Slots == 1..MaxInFlight

EventCreated == "company_created"
EventUpdated == "company_updated"
EventDeleted == "company_deleted"

IdleCall ==
    [n |-> 0, pc |-> "idle", op |-> "none", via |-> "-", reqID |-> "",
     present |-> {}, input |-> NoCompany, update |-> NoUpdate,
     company |-> NoCompany, svcCalled |-> FALSE, err |-> NoError,
     resp |-> NoCompany, code |-> NoCode, msg |-> <<>>, repoCalls |-> <<>>,
     dispatched |-> FALSE, before |-> NoCompany, after |-> NoCompany,
     seen |-> {}, gone |-> {}]

\* The slot a new call takes: the first one whose call has returned.
Free(s) == calls[s].pc \in {"idle", "done"}
FirstFree(s) == Free(s) /\ \A t \in Slots : t < s => ~Free(t)

NewCall(op, via) ==
    [IdleCall EXCEPT !.n = started + 1, !.pc = "running", !.op = op, !.via = via]

\* The call returns err (and resp) from the orchestrator; a handler maps it.
Return(call, err, resp) ==
    [call EXCEPT !.pc = "done", !.err = err, !.resp = resp,
                 !.code = IF call.via # "handler" THEN NoCode
                          ELSE IF err = NoError THEN CodeOK
                          ELSE MapServiceError(err),
                 !.msg = IF call.via # "handler" \/ err = NoError THEN <<>>
                         ELSE StatusMessage(err)]

\* The handler rejects the request before calling the orchestrator.
Reject(call, code) == [call EXCEPT !.pc = "done", !.code = code]

RepoCall(call, method) == [call EXCEPT !.repoCalls = Append(@, method)]

\* A dispatch that announces every mutation as a creation.
GoroutineAlwaysCreated(call, eventType, company) ==
    [call |-> call.n, Type |-> EventCreated, Company |-> company]

\* go func() { s.producer.Produce(eventType, company) }()
Goroutine(call, eventType, company) ==
    [call |-> call.n, Type |-> eventType, Company |-> company]

\* CreateCompany's input validation.
ValidateCreate(company) ==
    IF company.Name = "" \/ GoLen(company.Name) > MaxNameLen
    THEN Wrap("invalid name", Sentinel(ErrInvalidInput))
    ELSE IF company.Description # EmptyText /\ GoLenText(company.Description) > MaxDescLen
    THEN Wrap("description too long", Sentinel(ErrInvalidInput))
    ELSE NoError

\* An orchestrator that keeps an identifier the client supplied.
KeepClientID(company, n) ==
    IF company.ID # NilUUID THEN company ELSE [company EXCEPT !.ID = NewUUID(n)]

\* company.ID = uuid.New()
AssignID(company, n) == [company EXCEPT !.ID = NewUUID(n)]

\* CompanyService.CreateCompany up to the existence check.
CreateStart(call, company) ==
    LET c0 == [call EXCEPT !.svcCalled = TRUE, !.input = company] IN
    IF ValidateCreate(company) # NoError
    THEN Return(c0, ValidateCreate(company), NoCompany)
    ELSE LET c1 == RepoCall(c0, "CompanyExistsByName") IN
         IF CompanyExistsByName(store, company.Name)
         THEN Return(c1, Sentinel(ErrDuplicateName), NoCompany)
         ELSE [c1 EXCEPT !.pc = "create_insert", !.company = company]

Inserting == Cardinality({s \in Slots : calls[s].pc = "create_insert"})

Begin(s, call) ==
    /\ started < MaxCalls
    /\ FirstFree(s)
    /\ call.pc = "create_insert" => nextID + Inserting <= MaxCreates
    /\ calls' = [calls EXCEPT ![s] = call]
    /\ started' = started + 1

\* A client of the orchestrator calls CreateCompany.
CreateCompany(s, company) ==
    /\ Begin(s, CreateStart(NewCall("Create", "service"), company))
    /\ UNCHANGED <<server, authCall, store, nextID, created, deleted, spawned, events, warnings, emVars>>

\* CompanyHandler.CreateCompany
HandlerCreateCompany(s, pbCompany) ==
    /\ Begin(s, IF pbCompany = NoPb
                THEN Reject(NewCall("Create", "handler"), CodeInvalidArgument)
                ELSE CreateStart(NewCall("Create", "handler"),
                                 ProtoToModel(pbCompany)))
    /\ UNCHANGED <<server, authCall, store, nextID, created, deleted, spawned, events, warnings, emVars>>

\* CompanyService.CreateCompany from uuid.New to the return.
CreateInsert(s) ==
    /\ calls[s].pc = "create_insert"
    /\ LET call    == RepoCall(calls[s], "CreateCompany")
           company == AssignID(call.company, nextID)
           r       == RepoCreateCompany(store, company)
       IN
       /\ nextID' = nextID + 1
       /\ store' = r.store
       /\ IF r.err # NoError
          THEN /\ calls' = [calls EXCEPT ![s] =
                      Return(call, Wrap("failed to create company", r.err), NoCompany)]
               /\ UNCHANGED <<created, spawned>>
          ELSE /\ calls' = [calls EXCEPT ![s] =
                      Return([call EXCEPT !.dispatched = TRUE, !.seen = created,
                                          !.company = company],
                             NoError, company)]
               /\ created' = created \cup {company.ID}
               /\ spawned' = spawned \cup {Goroutine(call, EventCreated, company)}
    /\ UNCHANGED <<server, authCall, deleted, started, events, warnings, emVars>>

\* An UpdateCompany that hands every identifier to the store.
UpdateStartUnchecked(call, update) ==
    LET c1 == RepoCall([call EXCEPT !.svcCalled = TRUE, !.update = update],
                       "UpdateCompany")
        r  == RepoUpdateCompany(store, update)
    IN
    IF r.err # NoError
    THEN Return(c1, r.err, NoCompany)
    ELSE [c1 EXCEPT !.pc = "update_fetch",
                    !.before = RepoGetCompany(store, update.ID).company,
                    !.after = RepoGetCompany(r.store, update.ID).company]

\* CompanyService.UpdateCompany up to the return of repo.UpdateCompany.
UpdateStart(call, update) ==
    LET c0 == [call EXCEPT !.svcCalled = TRUE, !.update = update] IN
    IF update.ID = NilUUID
    THEN Return(c0, Wrap("invalid company ID", Sentinel(ErrInvalidInput)), NoCompany)
    ELSE LET c1 == RepoCall(c0, "UpdateCompany")
             r  == RepoUpdateCompany(store, update)
         IN
         IF r.err # NoError
         THEN Return(c1, IF ErrorsIs(r.err, ErrNotFound) THEN r.err
                         ELSE Wrap("failed to update company", r.err), NoCompany)
         ELSE [c1 EXCEPT !.pc = "update_fetch",
                         !.before = RepoGetCompany(store, update.ID).company,
                         !.after = RepoGetCompany(r.store, update.ID).company]

\* The store after the first step of an Update call.
UpdateStore(call) ==
    IF call.pc = "update_fetch" THEN RepoUpdateCompany(store, call.update).store
    ELSE store

\* A client of the orchestrator calls UpdateCompany.
UpdateCompany(s, update) ==
    LET call == UpdateStart(NewCall("Update", "service"), update) IN
    /\ Begin(s, call)
    /\ store' = UpdateStore(call)
    /\ UNCHANGED <<server, authCall, nextID, created, deleted, spawned, events, warnings, emVars>>

\* CompanyHandler.UpdateCompany
HandlerUpdateCompany(s, reqID, present, pbCompany) ==
    LET c0   == [NewCall("Update", "handler") EXCEPT !.reqID = reqID,
                                                     !.present = present]
        id   == ParseUUID(reqID)
        call == IF ~id.ok THEN Reject(c0, CodeInvalidArgument)
                ELSE IF pbCompany = NoPb THEN Reject(c0, CodeInvalidArgument)
                ELSE UpdateStart(c0, ProtoToUpdate(pbCompany, id.id))
    IN
    /\ Begin(s, call)
    /\ store' = UpdateStore(call)
    /\ UNCHANGED <<server, authCall, nextID, created, deleted, spawned, events, warnings, emVars>>

\* An UpdateCompany that returns the record as its own patch left it
\* instead of fetching it again.
UpdateFetchSkipsRefetch(s) ==
    /\ calls[s].pc = "update_fetch"
    /\ LET call == calls[s] IN
       /\ calls' = [calls EXCEPT ![s] =
              Return([call EXCEPT !.dispatched = TRUE, !.company = call.after],
                     NoError, call.after)]
       /\ spawned' = spawned \cup {Goroutine(call, EventUpdated, call.after)}
    /\ UNCHANGED <<server, authCall, store, nextID, created, deleted, started, events, warnings, emVars>>

\* CompanyService.UpdateCompany from the re-fetch to the return.
UpdateFetch(s) ==
    /\ calls[s].pc = "update_fetch"
    /\ LET call == RepoCall(calls[s], "GetCompany")
           g    == RepoGetCompany(store, call.update.ID)
       IN
       IF g.err # NoError
       THEN /\ calls' = [calls EXCEPT ![s] = Return(call, g.err, NoCompany)]
            /\ UNCHANGED spawned
       ELSE /\ calls' = [calls EXCEPT ![s] =
                   Return([call EXCEPT !.dispatched = TRUE, !.company = g.company],
                          NoError, g.company)]
            /\ spawned' = spawned \cup {Goroutine(call, EventUpdated, g.company)}
    /\ UNCHANGED <<server, authCall, store, nextID, created, deleted, started, events, warnings, emVars>>

\* A DeleteCompany that goes to the store's delete without fetching first.
DeleteStartSkipsFetch(call, id) ==
    [call EXCEPT !.svcCalled = TRUE, !.reqID = id, !.pc = "delete_apply"]

\* CompanyService.DeleteCompany up to the return of repo.GetCompany.
DeleteStart(call, id) ==
    LET c1 == RepoCall([call EXCEPT !.svcCalled = TRUE, !.reqID = id], "GetCompany")
        g  == RepoGetCompany(store, id)
    IN
    IF g.err # NoError
    THEN Return(c1, IF ErrorsIs(g.err, ErrNotFound) THEN g.err
                    ELSE Wrap("failed to get company for deletion", g.err), NoCompany)
    ELSE [c1 EXCEPT !.pc = "delete_apply", !.company = g.company]

\* A client of the orchestrator calls DeleteCompany.
DeleteCompany(s, id) ==
    /\ Begin(s, DeleteStart(NewCall("Delete", "service"), id))
    /\ UNCHANGED <<server, authCall, store, nextID, created, deleted, spawned, events, warnings, emVars>>

\* A handler that passes what uuid.Parse returned on without looking at
\* its error.
HandlerDeleteCompanyUnparsed(s, reqID) ==
    LET c0 == [NewCall("Delete", "handler") EXCEPT !.reqID = reqID]
        id == ParseUUID(reqID)
    IN
    /\ Begin(s, DeleteStart(c0, id.id))
    /\ UNCHANGED <<server, authCall, store, nextID, created, deleted, spawned, events, warnings, emVars>>

\* CompanyHandler.DeleteCompany
HandlerDeleteCompany(s, reqID) ==
    LET c0 == [NewCall("Delete", "handler") EXCEPT !.reqID = reqID]
        id == ParseUUID(reqID)
    IN
    /\ Begin(s, IF ~id.ok THEN Reject(c0, CodeInvalidArgument)
                ELSE DeleteStart(c0, id.id))
    /\ UNCHANGED <<server, authCall, store, nextID, created, deleted, spawned, events, warnings, emVars>>

\* A DeleteCompany that calls a blocking Produce itself before it returns.
DeleteApplyWaits(s) ==
    /\ calls[s].pc = "delete_apply"
    /\ Len(events) < QueueCapacity
    /\ LET call == RepoCall(calls[s], "DeleteCompany")
           r    == RepoDeleteCompany(store, call.reqID)
           g    == Goroutine(call, EventDeleted, call.company)
       IN
       /\ store' = r.store
       /\ IF r.err # NoError
          THEN /\ calls' = [calls EXCEPT ![s] =
                      Return(call, Wrap("failed to delete company", r.err), NoCompany)]
               /\ UNCHANGED <<deleted, events, produced>>
          ELSE /\ calls' = [calls EXCEPT ![s] =
                      Return([call EXCEPT !.dispatched = TRUE], NoError, NoCompany)]
               /\ events' = Append(events, g)
               /\ produced' = Append(produced, g)
               /\ deleted' = deleted \cup {call.reqID}
    /\ UNCHANGED <<server, authCall, nextID, created, started, spawned, warnings,
                   worker, closeChan, writer, errlog>>

\* CompanyService.DeleteCompany from repo.DeleteCompany to the return.
DeleteApply(s) ==
    /\ calls[s].pc = "delete_apply"
    /\ LET call == RepoCall(calls[s], "DeleteCompany")
           r    == RepoDeleteCompany(store, call.reqID)
       IN
       /\ store' = r.store
       /\ IF r.err # NoError
          THEN /\ calls' = [calls EXCEPT ![s] =
                      Return(call, Wrap("failed to delete company", r.err), NoCompany)]
               /\ UNCHANGED <<spawned, deleted>>
          ELSE /\ calls' = [calls EXCEPT ![s] =
                      Return([call EXCEPT !.dispatched = TRUE], NoError, NoCompany)]
               /\ spawned' = spawned \cup {Goroutine(call, EventDeleted, call.company)}
               /\ deleted' = deleted \cup {call.reqID}
    /\ UNCHANGED <<server, authCall, nextID, created, started, events, warnings, emVars>>

\* CompanyService.GetCompany
GetStart(call, id) ==
    LET c1 == RepoCall([call EXCEPT !.svcCalled = TRUE, !.reqID = id,
                                    !.gone = deleted], "GetCompany")
        g  == RepoGetCompany(store, id)
    IN
    IF g.err # NoError
    THEN Return(c1, IF ErrorsIs(g.err, ErrNotFound) THEN g.err
                    ELSE Wrap("failed to get company", g.err), NoCompany)
    ELSE Return([c1 EXCEPT !.company = g.company], NoError, g.company)

\* A client of the orchestrator calls GetCompany.
GetCompany(s, id) ==
    /\ Begin(s, GetStart(NewCall("Get", "service"), id))
    /\ UNCHANGED <<server, authCall, store, nextID, created, deleted, spawned, events, warnings, emVars>>

\* CompanyHandler.GetCompany
HandlerGetCompany(s, reqID) ==
    LET c0 == [NewCall("Get", "handler") EXCEPT !.reqID = reqID]
        id == ParseUUID(reqID)
    IN
    /\ Begin(s, IF ~id.ok THEN Reject(c0, CodeInvalidArgument)
                ELSE GetStart(c0, id.id))
    /\ UNCHANGED <<server, authCall, store, nextID, created, deleted, spawned, events, warnings, emVars>>

\* A Produce that waits for the goroutines of earlier calls to run first.
ProduceInCallOrder(n) ==
    /\ \E g \in spawned : g.call = n
    /\ \A g \in spawned : g.call >= n
    /\ LET g == CHOOSE g \in spawned : g.call = n IN
       /\ spawned' = spawned \ {g}
       /\ produced' = Append(produced, g)
       /\ IF Len(events) < QueueCapacity
          THEN /\ events' = Append(events, g)
               /\ UNCHANGED warnings
          ELSE /\ warnings' = warnings \cup
                      {[call |-> g.call, event_type |-> g.Type,
                        company_id |-> g.Company.ID]}
               /\ UNCHANGED events
    /\ UNCHANGED <<server, authCall, store, nextID, created, deleted, started, calls,
                   worker, closeChan, writer, errlog>>

\* A Produce that puts the event on the queue whatever the queue holds.
ProduceUnbounded(n) ==
    /\ \E g \in spawned : g.call = n
    /\ LET g == CHOOSE g \in spawned : g.call = n IN
       /\ spawned' = spawned \ {g}
       /\ produced' = Append(produced, g)
       /\ events' = Append(events, g)
    /\ UNCHANGED <<server, authCall, store, nextID, created, deleted, started, calls,
                   warnings, worker, closeChan, writer, errlog>>

\* A Produce that makes room on a full queue by dropping its oldest event.
ProduceDropsOldest(n) ==
    /\ \E g \in spawned : g.call = n
    /\ LET g == CHOOSE g \in spawned : g.call = n IN
       /\ spawned' = spawned \ {g}
       /\ produced' = Append(produced, g)
       /\ IF Len(events) < QueueCapacity
          THEN /\ events' = Append(events, g)
               /\ UNCHANGED warnings
          ELSE /\ events' = Append(Tail(events), g)
               /\ warnings' = warnings \cup
                      {[call |-> Head(events).call, event_type |-> Head(events).Type,
                        company_id |-> Head(events).Company.ID]}
    /\ UNCHANGED <<server, authCall, store, nextID, created, deleted, started, calls,
                   worker, closeChan, writer, errlog>>

\* Producer.Produce, run by the goroutine call n detached: a non-blocking send.
Produce(n) ==
    /\ \E g \in spawned : g.call = n
    /\ LET g == CHOOSE g \in spawned : g.call = n IN
       /\ spawned' = spawned \ {g}
       /\ produced' = Append(produced, g)
       /\ IF Len(events) < QueueCapacity
          THEN /\ events' = Append(events, g)
               /\ UNCHANGED warnings
          ELSE /\ warnings' = warnings \cup
                      {[call |-> g.call, event_type |-> g.Type,
                        company_id |-> g.Company.ID]}
               /\ UNCHANGED events
    /\ UNCHANGED <<server, authCall, store, nextID, created, deleted, started, calls,
                   worker, closeChan, writer, errlog>>

-----------------------------------------------------------------------------
(* The producer's worker (eventLoop, sendEvent) and Close.                 *)

NoEvent == [call |-> 0, Type |-> "", Company |-> NoCompany]

\* The outcomes of jsonMarshal and of the KafkaWriter's calls.
Outcomes == {"ok", "error"}

\* A log entry of sendEvent or Close.
LogError(msg, event) ==
    [msg |-> msg, call |-> event.call, company_id |-> event.Company.ID]

\* kafka.Message{Key: company ID, Value: the marshalled event}, with the
\* state of the WriteMessages call that carries it, whether the writer was
\* closed when the call was issued, and whether the event was still on the
\* queue when closeChan was closed.
Message(event, status) ==
    [call |-> event.call, Key |-> event.Company.ID, Type |-> event.Type,
     status |-> status, writerClosed |-> writer.closed,
     queuedAtClose |-> worker.afterClose]

\* A receive that hands out the newest element.
ReceiveNewest(queue) ==
    [event |-> queue[Len(queue)], rest |-> SubSeq(queue, 1, Len(queue) - 1)]

\* case event := <-p.events: the channel hands out its oldest element.
Receive(queue) == [event |-> Head(queue), rest |-> Tail(queue)]

\* A worker that goes on to write an event it could not marshal.
EventLoopReceiveWritesAnyway(marshal) ==
    /\ worker.pc = "select"
    /\ events # <<>>
    /\ events' = Receive(events).rest
    /\ worker' = [pc |-> "send", event |-> Receive(events).event,
                   afterClose |-> closeChan = "closed"]
    /\ errlog' = IF marshal = "ok" THEN errlog
                 ELSE errlog \cup
                        {LogError("Failed to serialize event", Receive(events).event)}
    /\ UNCHANGED <<server, authCall, store, nextID, created, deleted, started, calls, spawned,
                   warnings, produced, closeChan, writer>>

\* A worker that discards an event it cannot marshal without logging it.
EventLoopReceiveDiscards(marshal) ==
    /\ worker.pc = "select"
    /\ events # <<>>
    /\ events' = Receive(events).rest
    /\ IF marshal = "ok"
       THEN worker' = [pc |-> "send", event |-> Receive(events).event,
                       afterClose |-> closeChan = "closed"]
       ELSE worker' = [pc |-> "select", event |-> NoEvent, afterClose |-> FALSE]
    /\ UNCHANGED <<server, authCall, store, nextID, created, deleted, started, calls, spawned,
                   warnings, produced, closeChan, writer, errlog>>

\* eventLoop's select takes the events case, then sendEvent marshals the
\* event; a marshalling error is logged and ends sendEvent.
EventLoopReceive(marshal) ==
    /\ worker.pc = "select"
    /\ events # <<>>
    /\ events' = Receive(events).rest
    /\ IF marshal = "ok"
       THEN /\ worker' = [pc |-> "send", event |-> Receive(events).event,
                           afterClose |-> closeChan = "closed"]
            /\ UNCHANGED errlog
       ELSE /\ worker' = [pc |-> "select", event |-> NoEvent, afterClose |-> FALSE]
            /\ errlog' = errlog \cup
                   {LogError("Failed to serialize event", Receive(events).event)}
    /\ UNCHANGED <<server, authCall, store, nextID, created, deleted, started, calls, spawned,
                   warnings, produced, closeChan, writer>>

\* eventLoop's select takes the closeChan case and returns.
EventLoopStop ==
    /\ worker.pc = "select"
    /\ closeChan = "closed"
    /\ worker' = [pc |-> "stopped", event |-> NoEvent, afterClose |-> FALSE]
    /\ UNCHANGED <<server, authCall, store, nextID, created, deleted, started, calls, spawned,
                   events, warnings, produced, closeChan, writer, errlog>>

\* sendEvent calls p.writer.WriteMessages, which blocks until the write is done.
WriteMessages ==
    /\ worker.pc = "send"
    /\ worker' = [worker EXCEPT !.pc = "write"]
    /\ writer' = [writer EXCEPT !.writes = Append(@, Message(worker.event, "issued"))]
    /\ UNCHANGED <<server, authCall, store, nextID, created, deleted, started, calls, spawned,
                   events, warnings, produced, closeChan, errlog>>

\* A sendEvent that puts the event back on the queue when the write failed.
WriteMessagesReturnRequeues(result) ==
    /\ worker.pc = "write"
    /\ writer.writes[Len(writer.writes)].writerClosed => result = "error"
    /\ writer' = [writer EXCEPT !.writes[Len(writer.writes)].status = result]
    /\ worker' = [pc |-> "select", event |-> NoEvent, afterClose |-> FALSE]
    /\ errlog' = IF result = "ok" THEN errlog
                 ELSE errlog \cup {LogError("Failed to produce event", worker.event)}
    /\ events' = IF result = "error" /\ Len(events) < QueueCapacity
                 THEN Append(events, worker.event) ELSE events
    /\ UNCHANGED <<server, authCall, store, nextID, created, deleted, started, calls, spawned,
                   warnings, produced, closeChan>>

\* A worker that gives up after a failed write.
WriteMessagesReturnStopsOnError(result) ==
    /\ worker.pc = "write"
    /\ writer.writes[Len(writer.writes)].writerClosed => result = "error"
    /\ writer' = [writer EXCEPT !.writes[Len(writer.writes)].status = result]
    /\ worker' = [pc |-> IF result = "ok" THEN "select" ELSE "stopped",
                   event |-> NoEvent, afterClose |-> FALSE]
    /\ errlog' = IF result = "ok" THEN errlog
                 ELSE errlog \cup {LogError("Failed to produce event", worker.event)}
    /\ UNCHANGED <<server, authCall, store, nextID, created, deleted, started, calls, spawned,
                   events, warnings, produced, closeChan>>

\* WriteMessages returns; a closed writer returns an error; sendEvent logs an
\* error and returns to the loop in either case.
WriteMessagesReturn(result) ==
    /\ worker.pc = "write"
    /\ writer.writes[Len(writer.writes)].writerClosed => result = "error"
    /\ writer' = [writer EXCEPT !.writes[Len(writer.writes)].status = result]
    /\ worker' = [pc |-> "select", event |-> NoEvent, afterClose |-> FALSE]
    /\ errlog' = IF result = "ok" THEN errlog
                 ELSE errlog \cup {LogError("Failed to produce event", worker.event)}
    /\ UNCHANGED <<server, authCall, store, nextID, created, deleted, started, calls, spawned,
                   events, warnings, produced, closeChan>>

\* Producer.Close: close(p.closeChan)
CloseSignal ==
    /\ closeChan = "open"
    /\ closeChan' = "closed"
    /\ UNCHANGED <<server, authCall, store, nextID, created, deleted, started, calls, spawned,
                   events, warnings, produced, worker, writer, errlog>>

\* Producer.Close: p.writer.Close(), its error logged.
CloseWriter(result) ==
    /\ closeChan = "closed"
    /\ ~writer.closed
    /\ writer' = [writer EXCEPT !.closed = TRUE]
    /\ errlog' = IF result = "ok" THEN errlog
                 ELSE errlog \cup {LogError("Failed to close Kafka writer", NoEvent)}
    /\ UNCHANGED <<server, authCall, store, nextID, created, deleted, started, calls, spawned,
                   events, warnings, produced, worker, closeChan>>

-----------------------------------------------------------------------------
(* handlers.Server: Start and Stop over the gRPC and the HTTP server.      *)

Transports == {"rpc", "http"}

Nil == "nil"

\* A call in flight either completes or never does.
CallKinds == {"finishing", "stuck"}

\* NewServer and RegisterHTTPGateway: nothing listens yet.
NewServer ==
    [start |-> "idle", startErr |-> "-",
     grpc |-> "idle", http |-> "idle",
     lis |-> [t \in Transports |-> "none"],
     errChan |-> <<>>, chanClosed |-> FALSE, wg |-> 0,
     stop |-> "idle", quit |-> [t \in Transports |-> FALSE],
     done |-> FALSE, ctxExpired |-> FALSE,
     inflight |-> [t \in Transports |-> {}],
     bindFailed |-> {}, stoppedWhileServing |-> FALSE, log |-> {}]

\* The listener of transport t is bound and its serving loop accepts calls.
Accepting(t) ==
    /\ server.lis[t] = "open"
    /\ IF t = "rpc" THEN server.grpc = "serving" ELSE server.http = "serving"

\* Server.Start: wg.Add(2), errChan, the goroutines are started.
Start ==
    /\ server.start = "idle"
    /\ server' = [server EXCEPT !.start = "running", !.wg = 2,
                                !.grpc = "listen", !.http = "listen"]
    /\ UNCHANGED <<authCall, svcVarsButServer>>

\* The gRPC goroutine: net.Listen; on an error it sends it and is done.
GrpcListen(result) ==
    /\ server.grpc = "listen"
    /\ server' =
         IF result = "error"
         THEN [server EXCEPT !.grpc = "done", !.wg = @ - 1,
                             !.errChan = Append(@, "gRPC listen error"),
                             !.bindFailed = @ \cup {"rpc"}]
         ELSE [server EXCEPT !.grpc = "serve", !.lis["rpc"] = "open"]
    /\ UNCHANGED <<authCall, svcVarsButServer>>

\* The gRPC goroutine: s.grpcServer.Serve(lis); a server that was already
\* stopped closes the listener and returns ErrServerStopped.
GrpcServe ==
    /\ server.grpc = "serve"
    /\ server' =
         IF server.quit["rpc"]
         THEN [server EXCEPT !.grpc = "done", !.wg = @ - 1,
                             !.lis["rpc"] = "closed",
                             !.errChan = Append(@, "gRPC serve error")]
         ELSE [server EXCEPT !.grpc = "serving"]
    /\ UNCHANGED <<authCall, svcVarsButServer>>

\* Serve returns nil once GracefulStop has finished.
GrpcServeReturn ==
    /\ server.grpc = "serving"
    /\ server.done
    /\ server' = [server EXCEPT !.grpc = "done", !.wg = @ - 1]
    /\ UNCHANGED <<authCall, svcVarsButServer>>

\* The HTTP goroutine: s.httpServer.ListenAndServe(); ErrServerClosed is not
\* an error, any other error is sent.
HttpListenAndServe(result) ==
    /\ server.http = "listen"
    /\ server' =
         IF server.quit["http"]
         THEN [server EXCEPT !.http = "done", !.wg = @ - 1]
         ELSE IF result = "error"
         THEN [server EXCEPT !.http = "done", !.wg = @ - 1,
                             !.errChan = Append(@, "HTTP serve error"),
                             !.bindFailed = @ \cup {"http"}]
         ELSE [server EXCEPT !.http = "serving", !.lis["http"] = "open"]
    /\ UNCHANGED <<authCall, svcVarsButServer>>

\* A goroutine that sends ErrServerClosed to errChan like any other error.
HttpServeReturnUnfiltered ==
    /\ server.http = "serving"
    /\ server.quit["http"]
    /\ server' = [server EXCEPT !.http = "done", !.wg = @ - 1,
                                !.errChan = Append(@, "HTTP serve error")]
    /\ UNCHANGED <<authCall, svcVarsButServer>>

\* ListenAndServe returns ErrServerClosed once Shutdown was called.
HttpServeReturn ==
    /\ server.http = "serving"
    /\ server.quit["http"]
    /\ server' = [server EXCEPT !.http = "done", !.wg = @ - 1]
    /\ UNCHANGED <<authCall, svcVarsButServer>>

\* go func() { wg.Wait(); close(errChan) }()
WaitAndClose ==
    /\ server.start # "idle"
    /\ server.wg = 0
    /\ ~server.chanClosed
    /\ server' = [server EXCEPT !.chanClosed = TRUE]
    /\ UNCHANGED <<authCall, svcVarsButServer>>

\* for err := range errChan: Start returns the first error it receives, or
\* nil when the channel is closed and empty.
StartReturn ==
    /\ server.start = "running"
    /\ \/ /\ server.errChan # <<>>
          /\ server' = [server EXCEPT !.start = "returned",
                                      !.startErr = Head(server.errChan),
                                      !.errChan = Tail(@)]
       \/ /\ server.errChan = <<>>
          /\ server.chanClosed
          /\ server' = [server EXCEPT !.start = "returned", !.startErr = Nil]
    /\ UNCHANGED <<authCall, svcVarsButServer>>

\* A client's call is accepted on transport t.
Accept(t, kind) ==
    /\ Accepting(t)
    /\ kind \notin server.inflight[t]
    /\ server' = [server EXCEPT !.inflight[t] = @ \cup {kind}]
    /\ UNCHANGED <<authCall, svcVarsButServer>>

\* A call in flight on transport t completes.
Complete(t) ==
    /\ "finishing" \in server.inflight[t]
    /\ server' = [server EXCEPT !.inflight[t] = @ \ {"finishing"}]
    /\ UNCHANGED <<authCall, svcVarsButServer>>

\* Server.Stop: the 5 s context is created and GracefulStop is called, which
\* closes the gRPC listener and then waits for the pending RPCs.
Stop ==
    /\ server.stop = "idle"
    /\ server' = [server EXCEPT
           !.stop = "graceful",
           !.quit["rpc"] = TRUE,
           !.lis["rpc"] = IF @ = "open" THEN "closed" ELSE @,
           !.stoppedWhileServing = Accepting("rpc") /\ Accepting("http")]
    /\ UNCHANGED <<authCall, svcVarsButServer>>

\* GracefulStop returns when no RPC is pending; Stop goes on to call
\* httpServer.Shutdown(ctx), which closes the HTTP listener.
GracefulStopReturn ==
    /\ server.stop = "graceful"
    /\ server.inflight["rpc"] = {}
    /\ server' = [server EXCEPT
           !.stop = "shutdown",
           !.done = TRUE,
           !.quit["http"] = TRUE,
           !.lis["http"] = IF @ = "open" THEN "closed" ELSE @]
    /\ UNCHANGED <<authCall, svcVarsButServer>>

\* context.WithTimeout(context.Background(), 5*time.Second) expires.
ContextTimeout ==
    /\ server.stop \in {"graceful", "shutdown"}
    /\ ~server.ctxExpired
    /\ server' = [server EXCEPT !.ctxExpired = TRUE]
    /\ UNCHANGED <<authCall, svcVarsButServer>>

\* Shutdown returns nil when no HTTP call is in flight, or the context's
\* error when it has expired; Stop logs the error and returns.
ShutdownReturn ==
    /\ server.stop = "shutdown"
    /\ \/ /\ server.inflight["http"] = {}
          /\ server' = [server EXCEPT !.stop = "returned"]
       \/ /\ server.inflight["http"] # {}
          /\ server.ctxExpired
          /\ server' = [server EXCEPT !.stop = "returned",
                            !.log = @ \cup {"HTTP server shutdown error"}]
    /\ UNCHANGED <<authCall, svcVarsButServer>>

-----------------------------------------------------------------------------
(* The calls clients make.                                                 *)

Name15 == "abcdefghijklmno"
Name16 == "abcdefghijklmnop"

Name8x2 == "éééééééé"     \* 8 characters, 16 bytes

CreateInputs ==
    {Company(NilUUID, "acme", EmptyText, 10, TRUE, Corporations),
     Company(UnknownUUID, Name15, Text("d", MaxDescLen), -1, FALSE, NonProfit),
     Company(NilUUID, "", EmptyText, 10, TRUE, Corporations),
     Company(NilUUID, Name16, EmptyText, 10, TRUE, Corporations),
     Company(NilUUID, Name8x2, EmptyText, 10, TRUE, Corporations),
     Company(NilUUID, "acme", Text("d", MaxDescLen + 1), 10, TRUE, Corporations)}

CreateRequests == {NoPb, PbCompany("acme", EmptyText, 10, TRUE, 0)}

KnownIDs == {NewUUID(n) : n \in 1..MaxCreates}

UpdateInputs ==
    UNION {{CompanyUpdate(id, NilPtr, NilPtr, NilPtr, NilPtr, NilPtr),
            CompanyUpdate(id, Ptr("acme"), NilPtr, NilPtr, NilPtr, NilPtr),
            CompanyUpdate(id, NilPtr, NilPtr, Ptr(-1), Ptr(FALSE), NilPtr)}
           : id \in KnownIDs}
    \cup {CompanyUpdate(NilUUID, Ptr("acme"), NilPtr, NilPtr, NilPtr, NilPtr),
          CompanyUpdate(UnknownUUID, Ptr("acme"), NilPtr, NilPtr, NilPtr, NilPtr)}

\* An UpdateCompanyRequest: the id, the fields the client set, the decoded body.
UpdateRequest(id, present, company) ==
    [Id |-> id, present |-> present, Company |-> company]

UpdateRequests ==
    {UpdateRequest(NewUUID(1), {"Name"}, Decode({"Name"}, PbCompany(Name15, EmptyText, 0, FALSE, 0))),
     UpdateRequest(NewUUID(1), {}, Decode({}, PbZero)),
     UpdateRequest(NewUUID(1), {}, NoPb),
     UpdateRequest("invalid-uuid", {"Name"}, Decode({"Name"}, PbCompany(Name15, EmptyText, 0, FALSE, 0)))}

DeleteInputs == KnownIDs \cup {UnknownUUID}
GetInputs == {NewUUID(1), UnknownUUID}
IDRequests == {NewUUID(1), "invalid-uuid"}

Init ==
    /\ authCall = [t \in Transports |-> NoAuthCall]
    /\ store = {}
    /\ nextID = 1
    /\ created = {}
    /\ deleted = {}
    /\ started = 0
    /\ calls = [s \in Slots |-> IdleCall]
    /\ spawned = {}
    /\ events = <<>>
    /\ warnings = {}
    /\ produced = <<>>
    /\ worker = [pc |-> "select", event |-> NoEvent, afterClose |-> FALSE]
    /\ closeChan = "open"
    /\ writer = [closed |-> FALSE, writes |-> <<>>]
    /\ errlog = {}
    /\ server = NewServer

Next ==
    \/ \E s \in Slots, company \in CreateInputs : CreateCompany(s, company)
    \/ \E s \in Slots, pbCompany \in CreateRequests : HandlerCreateCompany(s, pbCompany)
    \/ \E s \in Slots : CreateInsert(s)
    \/ \E s \in Slots, update \in UpdateInputs : UpdateCompany(s, update)
    \/ \E s \in Slots, req \in UpdateRequests :
            HandlerUpdateCompany(s, req.Id, req.present, req.Company)
    \/ \E s \in Slots : UpdateFetch(s)
    \/ \E s \in Slots, id \in DeleteInputs : DeleteCompany(s, id)
    \/ \E s \in Slots, reqID \in IDRequests : HandlerDeleteCompany(s, reqID)
    \/ \E s \in Slots : DeleteApply(s)
    \/ \E s \in Slots, id \in GetInputs : GetCompany(s, id)
    \/ \E s \in Slots, reqID \in IDRequests : HandlerGetCompany(s, reqID)
    \/ \E n \in 1..MaxCalls : Produce(n)

Spec == Init /\ [][Next]_vars

-----------------------------------------------------------------------------
(* The server on its own: Start, Stop and the calls in flight.             *)

NextServer ==
    \/ Start
    \/ \E result \in Outcomes : GrpcListen(result)
    \/ GrpcServe
    \/ GrpcServeReturn
    \/ \E result \in Outcomes : HttpListenAndServe(result)
    \/ HttpServeReturn
    \/ WaitAndClose
    \/ StartReturn
    \/ \E t \in Transports, kind \in CallKinds : Accept(t, kind)
    \/ \E t \in Transports : Complete(t)
    \/ Stop
    \/ GracefulStopReturn
    \/ ContextTimeout
    \/ ShutdownReturn

SpecServer == Init /\ [][NextServer]_vars

\* Every goroutine of the server is scheduled, a call that can complete
\* does, and the timer of Stop's context fires.
ServerScheduling ==
    /\ WF_vars(\E result \in Outcomes : GrpcListen(result))
    /\ WF_vars(GrpcServe) /\ WF_vars(GrpcServeReturn)
    /\ WF_vars(\E result \in Outcomes : HttpListenAndServe(result))
    /\ WF_vars(HttpServeReturn)
    /\ WF_vars(WaitAndClose) /\ WF_vars(StartReturn)
    /\ \A t \in Transports : WF_vars(Complete(t))
    /\ WF_vars(GracefulStopReturn) /\ WF_vars(ContextTimeout)
    /\ WF_vars(ShutdownReturn)

SpecServerFair == SpecServer /\ ServerScheduling

-----------------------------------------------------------------------------
(* The handlers over any CompanyController: the errors it may return.      *)

\* Errors that carry no tag: a driver error, a cancelled context.
ErrCanceled == "context canceled"
UntaggedErrors == {ErrDatabase, ErrCanceled}

\* The texts the orchestrator wraps an error in.
Wrappers == {"failed to create company", "failed to get company",
             "failed to check name existence"}

\* An error value, bare or wrapped once or twice with %w.
ServiceErrors ==
    LET leaves == {Sentinel(e) : e \in {ErrNotFound, ErrDuplicateName, ErrInvalidInput}
                                        \cup UntaggedErrors}
        once == {Wrap(w, l) : w \in Wrappers, l \in leaves}
        twice == {Wrap(w, l) : w \in Wrappers, l \in once}
    IN leaves \cup once \cup twice

HandlerOps == {"Create", "Update", "Delete", "Get"}

\* A handler whose call of h.service returns err: return nil, h.mapServiceError(err)
HandlerServiceError(s, op, err) ==
    /\ started < MaxCalls
    /\ FirstFree(s)
    /\ started' = started + 1
    /\ calls' = [calls EXCEPT ![s] =
           Return([NewCall(op, "handler") EXCEPT !.svcCalled = TRUE], err, NoCompany)]
    /\ UNCHANGED <<server, authCall, store, nextID, created, deleted, spawned, events,
                   warnings, emVars>>

NextHandlers ==
    \E s \in Slots, op \in HandlerOps, err \in ServiceErrors :
        HandlerServiceError(s, op, err)

SpecHandlers == Init /\ [][NextHandlers]_vars

-----------------------------------------------------------------------------
(* The producer on its own: Produce calls racing the worker and Close.     *)

EventTypes == {EventCreated, EventUpdated, EventDeleted}

\* The record the event of call n carries: two records take turns.
EventCompany(n) ==
    Company(NewUUID(1 + (n % 2)), "acme", EmptyText, 10, TRUE, Corporations)

\* The goroutines that will call Produce: one per call number, of any type.
Producers ==
    {{Goroutine([n |-> n], types[n], EventCompany(n)) : n \in 1..MaxCalls} :
        types \in [1..MaxCalls -> EventTypes]}

EmitterStep ==
    \/ \E n \in 1..MaxCalls : Produce(n)
    \/ \E marshal \in Outcomes : EventLoopReceive(marshal)
    \/ EventLoopStop
    \/ WriteMessages
    \/ \E result \in Outcomes : WriteMessagesReturn(result)
    \/ CloseSignal
    \/ \E result \in Outcomes : CloseWriter(result)

InitEmitter ==
    /\ authCall = [t \in Transports |-> NoAuthCall]
    /\ store = {}
    /\ nextID = 1
    /\ created = {}
    /\ deleted = {}
    /\ started = 0
    /\ calls = [s \in Slots |-> IdleCall]
    /\ spawned \in Producers
    /\ events = <<>>
    /\ warnings = {}
    /\ produced = <<>>
    /\ worker = [pc |-> "select", event |-> NoEvent, afterClose |-> FALSE]
    /\ closeChan = "open"
    /\ writer = [closed |-> FALSE, writes |-> <<>>]
    /\ errlog = {}
    /\ server = NewServer

SpecEmitter == InitEmitter /\ [][EmitterStep]_vars

\* The goroutines get to run: each detached Produce, the worker's select
\* (whichever ready case it takes) and its call of WriteMessages; the
\* writer's WriteMessages returns.
Scheduling ==
    /\ \A n \in 1..MaxCalls : WF_vars(Produce(n))
    /\ WF_vars((\E marshal \in Outcomes : EventLoopReceive(marshal)) \/ EventLoopStop)
    /\ WF_vars(WriteMessages)
    /\ WF_vars(\E result \in Outcomes : WriteMessagesReturn(result))

\* The producer with its goroutines scheduled.
SpecEmitterFair == SpecEmitter /\ Scheduling

-----------------------------------------------------------------------------
(* The orchestrator together with the whole producer, for a few calls.     *)

SystemCreates == {c \in CreateInputs : c.Name = "acme" /\ c.Description = EmptyText}
SystemUpdates == {u \in UpdateInputs : u.ID = NewUUID(1) /\ u.Employees # NilPtr}
SystemDeletes == {NewUUID(1)}

OrchestratorStep ==
    \/ \E s \in Slots, company \in SystemCreates : CreateCompany(s, company)
    \/ \E s \in Slots : CreateInsert(s)
    \/ \E s \in Slots, update \in SystemUpdates : UpdateCompany(s, update)
    \/ \E s \in Slots : UpdateFetch(s)
    \/ \E s \in Slots, id \in SystemDeletes : DeleteCompany(s, id)
    \/ \E s \in Slots : DeleteApply(s)

NextSystem == OrchestratorStep \/ EmitterStep
SpecSystem == Init /\ [][NextSystem]_vars

SpecSystemFair == SpecSystem /\ Scheduling

-----------------------------------------------------------------------------
(* The AuthGate on its own: calls arriving on the two listeners.           *)

AuthRPC ==
    /\ \E m \in FullMethods, md \in Metadatas : RPCCall(m, md)
    /\ UNCHANGED svcVars

AuthHTTP ==
    /\ \E m \in HTTPMethods, p \in HTTPPaths, h \in HeaderLists : HTTPCall(m, p, h)
    /\ UNCHANGED svcVars

InitAuth == Init
NextAuth == AuthRPC \/ AuthHTTP
SpecAuth == InitAuth /\ [][NextAuth]_vars

-----------------------------------------------------------------------------
(* Claims about the AuthGate (checked under SpecAuth).                     *)

IsUnauthenticated(code) == code \in {Unauthenticated, StatusUnauthorized}

\* "signed with the shared secret using the HMAC scheme and not expired",
\* read off the token itself.
GoodToken(tokenString) ==
    LET t == ParseJWT(tokenString) IN
    /\ t.wellFormed
    /\ t.alg \in HMACMethods
    /\ t.key = JwtSecret
    /\ t.exp # "past"

NoAuthorization(call) == Len(call.md.authorization) = 0

\* C1: a protected operation (under its registered full method name) called
\* without an Authorization header fails with Unauthenticated on both
\* transports and its handler is never invoked.
C1_NoHeaderUnauthenticated ==
    \A t \in Transports :
        LET call == authCall[t] IN
        (call.transport = t /\ call.op \in ProtectedOperations /\ NoAuthorization(call))
            => (IsUnauthenticated(call.code) /\ ~call.handlerInvoked)

\* C2: for every call the gate classifies as protected, the gate passes the
\* call on to the handler if and only if the bearer token is signed with the
\* shared secret under an HMAC method and is not expired; then the context
\* carries the token's verified claims; otherwise the call returns
\* Unauthenticated and the handler does not run.
C2_ProtectedIffValidToken ==
    \A t \in Transports :
        LET call == authCall[t]
            g    == call.gate
            good == g.extract.ok /\ GoodToken(g.extract.token)
        IN
        (call.transport = t /\ g.protected) =>
            /\ g.passed <=> good
            /\ g.passed =>
                  /\ g.claims.sub = ParseJWT(g.extract.token).sub
                  /\ g.claims.exp = ParseJWT(g.extract.token).exp
                  /\ g.claims # NoClaims
            /\ ~g.passed => (IsUnauthenticated(call.code) /\ ~call.handlerInvoked)

\* C2 witness: a protected call with a valid token reached the handler with
\* the claims in its context, and another protected call was turned away.
C2_Witness ==
    /\ authCall["rpc"].gate.protected
    /\ authCall["rpc"].handlerInvoked
    /\ authCall["rpc"].gate.claims.sub = UserID
    /\ authCall["http"].gate.protected
    /\ authCall["http"].gate.extract.ok
    /\ ~authCall["http"].gate.passed

\* C3: a Get call without any credential is passed through to the handler
\* and never rejected with Unauthenticated, on both transports.
C3_GetNeedsNoCredential ==
    \A t \in Transports :
        LET call == authCall[t] IN
        (call.transport = t /\ call.op = "GetCompany" /\ NoAuthorization(call))
            => (call.handlerInvoked /\ ~IsUnauthenticated(call.code))

\* C4: for the same operation and the same Authorization value, the HTTP
\* middleware and the RPC interceptor take the same accept/reject decision.
C4_SameDecisionOnBothTransports ==
    LET r == authCall["rpc"]
        h == authCall["http"]
    IN
    (/\ r.transport = "rpc" /\ h.transport = "http"
     /\ r.op \in Operations /\ r.op = h.op
     /\ r.md = h.md)
        => (r.gate.passed <=> h.gate.passed)

\* C5: on a protected call the credential extraction fails with
\* Unauthenticated when the Authorization value is absent, does not start
\* with "Bearer ", or has nothing after the prefix; otherwise it yields
\* exactly the text after the prefix (both transports).
C5_ExtractionContract ==
    \A t \in Transports :
        LET call == authCall[t]
            ext  == call.gate.extract
            hs   == call.md.authorization
        IN
        (call.transport = t /\ call.gate.protected /\ call.md.ok) =>
            IF \/ Len(hs) = 0
               \/ ~HasPrefix(hs[1], "Bearer ")
               \/ hs[1] = "Bearer "
            THEN ~ext.ok /\ IsUnauthenticated(call.code)
            ELSE ext.ok /\ "Bearer " \o ext.token = hs[1]


-----------------------------------------------------------------------------
(* Claims about the orchestrator and the handlers (checked under Spec).    *)

Called(call, method) == \E i \in DOMAIN call.repoCalls : call.repoCalls[i] = method

\* The step starts a Create call of the orchestrator in slot s.
StartsCreate(s) ==
    /\ started' = started + 1
    /\ calls'[s].n = started'
    /\ calls'[s].op = "Create"
    /\ calls'[s].svcCalled

\* The Create call started in slot s has failed with DuplicateName without a
\* write and without a notification.
RejectedAsDuplicate(s) ==
    /\ calls'[s].pc = "done"
    /\ ErrorsIs(calls'[s].err, ErrDuplicateName)
    /\ ~Called(calls'[s], "CreateCompany")
    /\ ~calls'[s].dispatched
    /\ store' = store
    /\ spawned' = spawned

\* C6: in every reachable state no two stored records have the same name.
C6_NoTwoRecordsShareName ==
    \A r1, r2 \in store : r1.Name = r2.Name => r1 = r2

\* C7 as stated: a Create whose name is the name of a record in the store
\* fails with DuplicateName, calls no store create, leaves the store
\* unchanged and dispatches no notification.
C7_DuplicateNameAsStated ==
    [][\A s \in Slots :
          (StartsCreate(s) /\ \E r \in store : r.Name = calls'[s].input.Name)
              => RejectedAsDuplicate(s)]_vars

\* C7 amended: a Create whose input passes validation and whose name is the
\* name of a record in the store fails with DuplicateName, calls no store
\* create, leaves the store unchanged and dispatches no notification.
C7_DuplicateNameRejected ==
    [][\A s \in Slots :
          (/\ StartsCreate(s)
           /\ ValidateCreate(calls'[s].input) = NoError
           /\ \E r \in store : r.Name = calls'[s].input.Name)
              => RejectedAsDuplicate(s)]_vars

\* C7 witness: a Create has returned DuplicateName while a record of its name
\* is in the store.
C7_Witness ==
    \E s \in Slots :
        /\ calls[s].op = "Create" /\ calls[s].pc = "done"
        /\ calls[s].err = Sentinel(ErrDuplicateName)
        /\ \E r \in store : r.Name = calls[s].input.Name

\* C8: a Create with an empty name, a name longer than 15 characters or a
\* description longer than 3000 characters fails with InvalidInput before
\* any call to the store and dispatches nothing; a name of 1..15 characters
\* with a description of 0..3000 characters passes validation.
C8_CreateValidation ==
    \A s \in Slots :
        (calls[s].op = "Create" /\ calls[s].svcCalled) =>
            LET input == calls[s].input IN
            IF \/ input.Name = ""
               \/ Len(input.Name) > MaxNameLen
               \/ input.Description.n > MaxDescLen
            THEN /\ calls[s].pc = "done"
                 /\ ErrorsIs(calls[s].err, ErrInvalidInput)
                 /\ calls[s].repoCalls = <<>>
                 /\ ~calls[s].dispatched
            ELSE /\ ~ErrorsIs(calls[s].err, ErrInvalidInput)
                 /\ Called(calls[s], "CompanyExistsByName")

SucceededCreate(call) ==
    call.op = "Create" /\ call.pc = "done" /\ call.svcCalled /\ call.err = NoError

\* C9: a successful Create returns a record whose identifier is non-nil, is
\* the one the orchestrator assigned (not the input's), and differs from the
\* identifier of every record created earlier, deleted ones included.
C9_FreshIdentifier ==
    /\ \A s \in Slots :
          SucceededCreate(calls[s]) =>
              /\ calls[s].resp.ID \notin {NilUUID, NoCompany.ID}
              /\ calls[s].resp.ID # calls[s].input.ID
              /\ calls[s].resp.ID \in created
              /\ calls[s].resp.ID \notin calls[s].seen
    /\ \A s, t \in Slots :
          (s # t /\ SucceededCreate(calls[s]) /\ SucceededCreate(calls[t]))
              => calls[s].resp.ID # calls[t].resp.ID

\* C9 witness: a Create given a client-chosen identifier has succeeded after
\* an earlier created record was deleted.
C9_Witness ==
    \E s \in Slots :
        /\ SucceededCreate(calls[s])
        /\ calls[s].input.ID = UnknownUUID
        /\ \E id \in calls[s].seen : Rows(store, id) = {}

\* The fields an Update request sets: for a request through the handler the
\* fields the client put in the body, for a patch given to the orchestrator
\* its non-nil pointers.
PresentFields(call) ==
    IF call.via = "handler" THEN call.present
    ELSE {f \in MutableFields : call.update[f] # NilPtr}

\* C10: an Update of an existing record replaces exactly the fields present
\* in the request and leaves every absent field at its prior value, through
\* the handler as well as directly at the orchestrator.
C10_UpdateReplacesPresentFieldsOnly ==
    \A s \in Slots :
        (calls[s].op = "Update" /\ calls[s].after # NoCompany) =>
            \A f \in MutableFields :
                calls[s].after[f] = IF f \in PresentFields(calls[s])
                                    THEN calls[s].update[f][1]
                                    ELSE calls[s].before[f]

\* The step starts an Update call of the orchestrator in slot s.
StartsUpdate(s) ==
    /\ started' = started + 1
    /\ calls'[s].n = started'
    /\ calls'[s].op = "Update"
    /\ calls'[s].svcCalled

\* The Update call started in slot s has failed with NotFound, with the store
\* unchanged and without a notification.
RejectedAsNotFound(s) ==
    /\ calls'[s].pc = "done"
    /\ ErrorsIs(calls'[s].err, ErrNotFound)
    /\ ~calls'[s].dispatched
    /\ store' = store
    /\ spawned' = spawned

\* C11 as stated: an Update whose identifier matches no stored record fails
\* with NotFound, leaves the store unchanged and dispatches no notification.
C11_UpdateUnknownAsStated ==
    [][\A s \in Slots :
          (StartsUpdate(s) /\ Rows(store, calls'[s].update.ID) = {})
              => RejectedAsNotFound(s)]_vars

\* C11 amended: an Update whose identifier is not the nil identifier and
\* matches no stored record fails with NotFound, leaves the store unchanged
\* and dispatches no notification.
C11_UpdateUnknownNotFound ==
    [][\A s \in Slots :
          (/\ StartsUpdate(s)
           /\ calls'[s].update.ID # NilUUID
           /\ Rows(store, calls'[s].update.ID) = {})
              => RejectedAsNotFound(s)]_vars

\* C11 witness: an Update of an identifier no record has returned NotFound
\* while the store holds other records.
C11_Witness ==
    \E s \in Slots :
        /\ calls[s].op = "Update" /\ calls[s].pc = "done"
        /\ calls[s].err = Sentinel(ErrNotFound)
        /\ calls[s].repoCalls = <<"UpdateCompany">>
        /\ Rows(store, calls[s].update.ID) = {}
        /\ store # {}

\* C12: an Update that names an existing record and sets no field succeeds
\* as a no-op: every field of the stored record is as before, and applying
\* the same patch again changes nothing either.
C12_EmptyPatchIsNoOp ==
    \A s \in Slots :
        (/\ calls[s].op = "Update"
         /\ PresentFields(calls[s]) = {}
         /\ calls[s].after # NoCompany)
            => /\ calls[s].after = calls[s].before
               /\ GormUpdates(calls[s].after, calls[s].update) = calls[s].after

\* C13: a Delete of a record that is in the store succeeds and removes it;
\* once a Delete of an identifier has returned success no row has that
\* identifier again, whatever runs afterwards, and every Get issued after
\* that return fails with NotFound.
C13_GetAfterDeleteNotFound ==
    /\ [](\A id \in deleted : Rows(store, id) = {})
    /\ [](\A s \in Slots :
            (/\ calls[s].op = "Get" /\ calls[s].pc = "done" /\ calls[s].svcCalled
             /\ calls[s].reqID \in calls[s].gone)
                => /\ calls[s].err = Sentinel(ErrNotFound)
                   /\ calls[s].resp = NoCompany)
    /\ [][\A s \in Slots :
            (/\ calls[s].pc = "delete_apply"
             /\ calls'[s].pc = "done"
             /\ Rows(store, calls[s].reqID) # {})
                => /\ calls'[s].err = NoError
                   /\ Rows(store', calls[s].reqID) = {}
                   /\ calls[s].reqID \in deleted']_vars

\* C13 witness: a Get issued after the Delete of its identifier returned has
\* failed with NotFound.
C13_Witness ==
    \E s \in Slots :
        /\ calls[s].op = "Get" /\ calls[s].pc = "done"
        /\ calls[s].reqID \in calls[s].gone
        /\ calls[s].reqID \in created
        /\ calls[s].err = Sentinel(ErrNotFound)

\* The Produce calls made or pending for call number n.
Pending(n) == {g \in spawned : g.call = n}
Made(n) == {i \in DOMAIN produced : produced[i].call = n}
Dispatches(n) == Cardinality(Pending(n)) + Cardinality(Made(n))
Dispatched(n) ==
    Pending(n) \cup {produced[i] : i \in Made(n)}

\* The event a successful call must dispatch: its type and the record.
Notification(call) ==
    CASE call.op = "Create" -> [Type |-> EventCreated, Company |-> call.resp]
      [] call.op = "Update" -> [Type |-> EventUpdated, Company |-> call.resp]
      [] call.op = "Delete" -> [Type |-> EventDeleted, Company |-> call.company]

\* C14: a Create, Update or Delete call that returned success has exactly
\* one Produce call, with the operation's event type and the affected
\* record; a call that returned an error, a call still running and a Get
\* have none.
C14_OneProducePerSuccess ==
    /\ \A n \in 1..MaxCalls : Dispatches(n) <= 1
    /\ \A s \in Slots :
          calls[s].n # 0 =>
              IF /\ calls[s].pc = "done" /\ calls[s].svcCalled
                 /\ calls[s].err = NoError
                 /\ calls[s].op \in {"Create", "Update", "Delete"}
              THEN /\ Dispatches(calls[s].n) = 1
                   /\ \A g \in Dispatched(calls[s].n) :
                         /\ g.Type = Notification(calls[s]).Type
                         /\ g.Company = Notification(calls[s]).Company
                         /\ g.Company # NoCompany
              ELSE Dispatches(calls[s].n) = 0

\* C14 witness: an Update and a Delete have returned success, a Get and a
\* failed call have returned, and a Produce call has run.
C14_Witness ==
    /\ produced # <<>>
    /\ \E s, u \in Slots :
          /\ calls[s].pc = "done" /\ calls[s].err = NoError
          /\ calls[s].op \in {"Update", "Delete"}
          /\ Dispatches(calls[s].n) = 1
          /\ calls[u].pc = "done"
          /\ calls[u].op = "Get" \/ calls[u].err # NoError
          /\ Dispatches(calls[u].n) = 0

\* C27: the category of every stored record is one of the four values of
\* the closed set, whatever category the requests carried.
C27_StoredCategoryInClosedSet ==
    \A r \in store : r.Type \in CompanyTypes

\* A state C27 excludes: a handler Update has returned success and the
\* record it patched is stored with the name of the unspecified category.
C27_StoredUnspecified ==
    \E s \in Slots, r \in store :
        /\ calls[s].op = "Update" /\ calls[s].via = "handler"
        /\ calls[s].pc = "done" /\ calls[s].code = CodeOK
        /\ r.ID = calls[s].update.ID
        /\ r.Type = CompanyTypeName(0)

\* C28: the employee count of every stored record is an integer that is
\* not negative, whatever counts the requests carried.
C28_StoredEmployeesNotNegative ==
    \A r \in store : r.Employees \in Nat

\* A state C28 excludes: a Create given a negative employee count has
\* returned success and its record is stored with that count.
C28_StoredNegative ==
    \E s \in Slots, r \in store :
        /\ SucceededCreate(calls[s])
        /\ calls[s].input.Employees < 0
        /\ r.ID = calls[s].resp.ID
        /\ r.Employees = calls[s].input.Employees

\* Create call t passed the existence check before Create call s, which has
\* returned success, inserted its record with the same name, and in this step
\* t's insert returns: the two calls raced.
RaceEnds(s, t) ==
    /\ s # t
    /\ SucceededCreate(calls[s])
    /\ calls[s].resp \in store
    /\ calls[t].op = "Create" /\ calls[t].pc = "create_insert"
    /\ calls[t].company.Name = calls[s].resp.Name
    /\ calls'[t].pc = "done"

\* C29: of two Create calls with the same name that both passed the
\* existence check before either inserted, the second to insert fails with
\* DuplicateName, the store keeps one record with that name, and one
\* Created notification is dispatched for the two.
C29_RacingCreatesOneWins ==
    [][\A s, t \in Slots :
          RaceEnds(s, t) =>
              /\ ErrorsIs(calls'[t].err, ErrDuplicateName)
              /\ calls'[t].code \in {NoCode, CodeAlreadyExists}
              /\ Cardinality({r \in store' : r.Name = calls[s].resp.Name}) = 1
              /\ Dispatches(calls[s].n)' + Dispatches(calls[t].n)' = 1]_vars

\* A state C29 excludes: two Create calls with the same name have both
\* returned success, both records are stored and two notifications were
\* dispatched.
C29_BothCreated ==
    \E s, t \in Slots :
        /\ s # t
        /\ SucceededCreate(calls[s]) /\ SucceededCreate(calls[t])
        /\ calls[s].resp.Name = calls[t].resp.Name
        /\ {calls[s].resp, calls[t].resp} \subseteq store
        /\ Dispatches(calls[s].n) + Dispatches(calls[t].n) = 2

\* The step in which the Update call in slot s returns success.
UpdateSucceeds(s) ==
    /\ calls[s].op = "Update" /\ calls[s].pc = "update_fetch"
    /\ calls'[s].pc = "done" /\ calls'[s].err = NoError

\* The fields the patch of a call sets: its non-nil pointers.
PatchFields(call) == {f \in MutableFields : call.update[f] # NilPtr}

\* What holds of every successful Update: it returns the record as the store
\* holds it at the re-fetch, and dispatches one Updated notification with
\* that same record.
ReturnsFetched(s) ==
    /\ calls'[s].resp \in store
    /\ calls'[s].resp.ID = calls[s].update.ID
    /\ \E g \in spawned' \ spawned :
          /\ spawned' = spawned \cup {g}
          /\ g.call = calls[s].n /\ g.Type = EventUpdated
          /\ g.Company = calls'[s].resp

\* The returned record has the patch's value in every field of the patch.
ReturnsPatched(s) ==
    \A f \in PatchFields(calls[s]) : calls'[s].resp[f] = calls[s].update[f][1]

StartsDelete(s) ==
    /\ started' = started + 1
    /\ calls'[s].n = started'
    /\ calls'[s].op = "Delete"
    /\ calls'[s].svcCalled

\* The step in which the Delete call in slot s returns success.
DeleteSucceeds(s) ==
    /\ calls[s].op = "Delete" /\ calls[s].pc = "delete_apply"
    /\ calls'[s].pc = "done" /\ calls'[s].err = NoError

\* C31: Delete fetches the record first.  For an identifier that matches no
\* record it returns NotFound with the fetch as its only call to the store,
\* the store unchanged and nothing dispatched; for an existing record it
\* keeps the fetched record, and the Deleted notification of a successful
\* Delete carries that record.
C31_DeleteFetchesFirst ==
    [][\A s \in Slots :
          /\ (StartsDelete(s) /\ Rows(store, calls'[s].reqID) = {}) =>
                /\ calls'[s].pc = "done"
                /\ calls'[s].err = Sentinel(ErrNotFound)
                /\ calls'[s].repoCalls = <<"GetCompany">>
                /\ ~calls'[s].dispatched
                /\ store' = store /\ spawned' = spawned
          /\ (StartsDelete(s) /\ Rows(store, calls'[s].reqID) # {}) =>
                /\ calls'[s].pc = "delete_apply"
                /\ calls'[s].repoCalls = <<"GetCompany">>
                /\ Rows(store, calls'[s].reqID) = {calls'[s].company}
                /\ store' = store /\ spawned' = spawned
          /\ DeleteSucceeds(s) =>
                /\ calls'[s].repoCalls = <<"GetCompany", "DeleteCompany">>
                /\ spawned' = spawned \cup
                       {[call |-> calls[s].n, Type |-> EventDeleted,
                         Company |-> calls[s].company]}
                /\ calls[s].company # NoCompany]_vars

\* C31 witness: a Delete of an unknown identifier has returned NotFound, and
\* a Delete of an existing record has returned success with its notification
\* pending.
C31_Witness ==
    \E s, u \in Slots :
        /\ calls[s].op = "Delete" /\ calls[s].pc = "done"
        /\ calls[s].err = Sentinel(ErrNotFound)
        /\ ~Called(calls[s], "DeleteCompany")
        /\ calls[u].op = "Delete" /\ calls[u].pc = "done"
        /\ calls[u].err = NoError
        /\ \E g \in spawned : g.call = calls[u].n /\ g.Company = calls[u].company

\* C32: an Update with the nil identifier returns InvalidInput in its first
\* step, with no call to the store, the store unchanged and no notification
\* dispatched.
C32_NilIdentifierRejected ==
    [][\A s \in Slots :
          (StartsUpdate(s) /\ calls'[s].update.ID = NilUUID) =>
              /\ calls'[s].pc = "done"
              /\ ErrorsIs(calls'[s].err, ErrInvalidInput)
              /\ calls'[s].resp = NoCompany
              /\ calls'[s].repoCalls = <<>>
              /\ ~calls'[s].dispatched
              /\ store' = store /\ spawned' = spawned]_vars

\* C32 witness: an Update with the nil identifier has been rejected while
\* the store held a record.
C32_Witness ==
    \E s \in Slots :
        /\ calls[s].op = "Update" /\ calls[s].pc = "done"
        /\ calls[s].update.ID = NilUUID
        /\ calls[s].update.Name # NilPtr
        /\ ErrorsIs(calls[s].err, ErrInvalidInput)
        /\ store # {}

\* The request strings uuid.Parse does not accept.
Unparseable == {reqID \in IDRequests \cup {req.Id : req \in UpdateRequests} :
                    ~ParseUUID(reqID).ok}

\* The handler answered the call in slot s itself, with InvalidArgument.
RejectedByHandler(s) ==
    /\ calls[s].pc = "done" /\ calls[s].via = "handler"
    /\ calls[s].code = CodeInvalidArgument
    /\ ~calls[s].svcCalled
    /\ calls[s].repoCalls = <<>>
    /\ ~calls[s].dispatched

\* C36: a Get, Update or Delete request with an identifier uuid.Parse does
\* not accept, and a Create request without a company, is answered by the
\* handler with InvalidArgument; the orchestrator is not called, so the store
\* is not touched and nothing is dispatched.
C36_HandlerRejectsBeforeOrchestrator ==
    [][\A s \in Slots :
          (\/ HandlerCreateCompany(s, NoPb)
           \/ \E reqID \in Unparseable :
                 \/ HandlerGetCompany(s, reqID)
                 \/ HandlerDeleteCompany(s, reqID)
                 \/ \E req \in UpdateRequests :
                       /\ req.Id = reqID
                       /\ HandlerUpdateCompany(s, reqID, req.present, req.Company))
          => /\ RejectedByHandler(s)'
             /\ store' = store
             /\ spawned' = spawned]_vars

\* C36 witness: a Create without a company and a Delete with an identifier
\* that does not parse have both been rejected, next to a stored record.
C36_Witness ==
    /\ store # {}
    /\ \E s, t \in Slots :
          /\ RejectedByHandler(s) /\ calls[s].op = "Create"
          /\ RejectedByHandler(t) /\ calls[t].op = "Delete"
          /\ calls[t].reqID \in Unparseable

\* The Update call in slot s has returned an error and dispatched nothing.
UpdateFailed(s) ==
    /\ calls[s].op = "Update" /\ calls[s].pc = "done"
    /\ calls[s].svcCalled /\ calls[s].err # NoError
    /\ ~calls[s].dispatched

\* The Update call in slot s changed the record in the store.
PatchApplied(s) ==
    /\ "UpdateCompany" \in {calls[s].repoCalls[i] : i \in DOMAIN calls[s].repoCalls}
    /\ calls[s].before # calls[s].after

\* C37: an Update call that returns an error has not changed the store,
\* whatever Delete and Update calls run next to it.
C37_FailedUpdateLeavesStore ==
    \A s \in Slots : UpdateFailed(s) => ~PatchApplied(s)

\* The Update call of some slot wrote its patch and returned NotFound.
C37_AppliedAndFailed ==
    \E s \in Slots :
        /\ UpdateFailed(s) /\ PatchApplied(s)
        /\ ErrorsIs(calls[s].err, ErrNotFound)

\* The calls whose Deleted notification for record id was dispatched.
DeletedNotifications(id) ==
    {n \in 1..MaxCalls :
        \E g \in Dispatched(n) : g.Type = EventDeleted /\ g.Company.ID = id}

\* The Delete call in slot s found the record and went on to the store's
\* delete, and has returned.
RacedDelete(s, id) ==
    /\ calls[s].op = "Delete" /\ calls[s].pc = "done"
    /\ calls[s].reqID = id
    /\ Called(calls[s], "DeleteCompany")

\* The call in slot s returned NotFound (as errors.Is and mapServiceError
\* see it).
ReturnedNotFound(s) ==
    /\ ErrorsIs(calls[s].err, ErrNotFound)
    /\ calls[s].via = "handler" => calls[s].code = CodeNotFound
    /\ ~calls[s].dispatched

\* C38: of the Delete calls that run concurrently for one existing record,
\* the one whose delete reaches the store while the row is there returns
\* success and removes it; every other returns NotFound, dispatches nothing
\* and leaves the store alone; one Deleted notification is dispatched for the
\* record, by the successful call.
C38_RacingDeletesOneWins ==
    /\ [](\A id \in KnownIDs :
            /\ Cardinality(DeletedNotifications(id)) = IF id \in deleted THEN 1 ELSE 0
            /\ \A n \in DeletedNotifications(id) : Dispatches(n) = 1)
    /\ [](\A id \in KnownIDs : \A s \in Slots :
            RacedDelete(s, id) =>
                /\ id \in deleted
                /\ calls[s].err = NoError \/ ReturnedNotFound(s)
                /\ \A t \in Slots :
                      (t # s /\ RacedDelete(t, id) /\ calls[s].err = NoError)
                          => ReturnedNotFound(t))
    /\ [][\A s \in Slots :
            (calls[s].pc = "delete_apply" /\ calls'[s].pc = "done") =>
                IF Rows(store, calls[s].reqID) # {}
                THEN /\ calls'[s].err = NoError /\ calls'[s].dispatched
                     /\ Rows(store', calls[s].reqID) = {}
                     /\ calls[s].reqID \notin deleted
                ELSE /\ ReturnedNotFound(s)'
                     /\ store' = store /\ spawned' = spawned]_vars

\* C38 witness: two Delete calls found the same record; one returned
\* success, the other, through the handler, NotFound; one Deleted
\* notification was dispatched.
C38_Witness ==
    \E id \in KnownIDs : \E s, t \in Slots :
        /\ s # t /\ RacedDelete(s, id) /\ RacedDelete(t, id)
        /\ calls[s].err = NoError
        /\ calls[t].via = "handler" /\ calls[t].code = CodeNotFound
        /\ Cardinality(DeletedNotifications(id)) = 1

\* The events of calls n and m are on the queue, n's ahead of m's.
QueuedAhead(n, m) ==
    \E i, k \in DOMAIN events :
        i < k /\ events[i].call = n /\ events[k].call = m

\* C35: no order is imposed on the Produce calls of different orchestrator
\* calls: whichever goroutines are pending, each of them may run next, and
\* a Produce that runs leaves the others pending; so two events may enter
\* the queue in either order.
C35_EnqueueOrderFree ==
    /\ [](\A g \in spawned : ENABLED Produce(g.call))
    /\ [][\A n \in 1..MaxCalls :
            (Pending(n) # {} /\ Pending(n)' = {}) =>
                /\ spawned' = spawned \ Pending(n)
                /\ Len(produced') = Len(produced) + 1
                /\ produced'[Len(produced')].call = n]_vars

\* C35 witness: of two successful mutations of the same record, the event of
\* the later call is on the queue ahead of the event of the earlier call.
C35_Witness ==
    \E n, m \in 1..MaxCalls :
        /\ n < m
        /\ QueuedAhead(m, n)
        /\ \E i, k \in DOMAIN events :
              /\ events[i].call = m /\ events[k].call = n
              /\ events[i].Company.ID = events[k].Company.ID
              /\ events[k].Type = EventCreated /\ events[i].Type = EventUpdated

\* The other order: the event of the earlier call is ahead on the queue.
C35_InCallOrder ==
    \E n, m \in 1..MaxCalls :
        /\ n < m
        /\ QueuedAhead(n, m)
        /\ \E i, k \in DOMAIN events :
              /\ events[i].call = n /\ events[k].call = m
              /\ events[i].Company.ID = events[k].Company.ID
              /\ events[i].Type = EventCreated /\ events[k].Type = EventUpdated

-----------------------------------------------------------------------------
(* Claims about the orchestrator next to the producer (SpecSystem).        *)

orchestratorVars == <<store, nextID, created, deleted, started, calls>>
producerVars == <<events, warnings, produced, worker, closeChan, writer, errlog>>

\* What became of the event of call n inside the producer.
Dropped(n) == \E w \in warnings : w.call = n
MarshalFailed(n) ==
    \E l \in errlog : l.call = n /\ l.msg = "Failed to serialize event"
WriteFailed(n) ==
    \E l \in errlog : l.call = n /\ l.msg = "Failed to produce event"

\* C15: what a Create, Update or Delete call returns and the store after it
\* do not depend on the producer: no step of the producer (Produce with the
\* queue full or not, marshalling or write failure, Close) changes the store
\* or a call; a call's next step is never held back by the producer's
\* state; and a call has returned before its Produce runs.
C15_ResultIndependentOfProducer ==
    /\ [][producerVars' # producerVars => orchestratorVars' = orchestratorVars]_vars
    /\ [](\A s \in Slots :
            /\ calls[s].pc = "create_insert" => ENABLED CreateInsert(s)
            /\ calls[s].pc = "update_fetch" => ENABLED UpdateFetch(s)
            /\ calls[s].pc = "delete_apply" => ENABLED DeleteApply(s))
    /\ [](\A s \in Slots :
            (calls[s].n # 0 /\ Dispatches(calls[s].n) > 0)
                => calls[s].pc = "done" /\ calls[s].err = NoError)

\* C15 witness: of the calls that returned success, one had its event dropped
\* on a full queue and one had its event fail in the worker, and Close has run.
C15_Witness ==
    /\ closeChan = "closed"
    /\ writer.closed
    /\ \E s, u \in Slots :
          /\ calls[s].pc = "done" /\ calls[s].err = NoError
          /\ Dropped(calls[s].n)
          /\ calls[u].pc = "done" /\ calls[u].err = NoError
          /\ MarshalFailed(calls[u].n) \/ WriteFailed(calls[u].n)

\* Call n was a Create that returned the record with identifier id.
CreateReturned(n, id) ==
    \E g \in Dispatched(n) : g.Type = EventCreated /\ g.Company.ID = id

\* The messages keyed id with a Created payload that the broker received.
ReceivedCreated(id) ==
    {i \in DOMAIN writer.writes :
        /\ writer.writes[i].Key = id
        /\ writer.writes[i].Type = EventCreated
        /\ writer.writes[i].status = "ok"}

\* The event of call n is on the queue of a worker that has returned.
Abandoned(n) ==
    worker.pc = "stopped" /\ \E k \in DOMAIN events : events[k].call = n

\* C21 as stated: after a successful Create that returned identifier X the
\* broker eventually has exactly one Created message keyed X, or none when
\* the queue was full at the time the event was enqueued.
C21_OneCreatedMessageAsStated ==
    \A n \in 1..MaxCalls, id \in KnownIDs :
        CreateReturned(n, id) ~>
            (IF Dropped(n) THEN ReceivedCreated(id) = {}
             ELSE Cardinality(ReceivedCreated(id)) = 1)

\* C21: after a successful Create that returned identifier X the broker
\* never has more than one Created message keyed X, and that message is the
\* one of this Create; it has none when the event was dropped on a full
\* queue, could not be marshalled or its write failed; and eventually the
\* broker has that one message, or the event was dropped, failed to marshal,
\* failed to be written, or was left on the queue by a worker that Close
\* stopped.
C21_OneCreatedMessageOrLoss ==
    /\ [](\A id \in KnownIDs :
            /\ Cardinality(ReceivedCreated(id)) <= 1
            /\ \A i \in ReceivedCreated(id) :
                  CreateReturned(writer.writes[i].call, id))
    /\ [](\A n \in 1..MaxCalls, id \in KnownIDs :
            (CreateReturned(n, id)
             /\ (Dropped(n) \/ MarshalFailed(n) \/ WriteFailed(n) \/ Abandoned(n)))
                => ReceivedCreated(id) = {})
    /\ \A n \in 1..MaxCalls, id \in KnownIDs :
          CreateReturned(n, id) ~>
              \/ Cardinality(ReceivedCreated(id)) = 1
              \/ Dropped(n) \/ MarshalFailed(n) \/ WriteFailed(n)
              \/ Abandoned(n)

\* C21 witness: of two successful Creates, the broker has the one message of
\* the first, and the event of the second was dropped on a full queue.
C21_Witness ==
    \E n, m \in 1..MaxCalls, x, y \in KnownIDs :
        /\ CreateReturned(n, x) /\ Cardinality(ReceivedCreated(x)) = 1
        /\ CreateReturned(m, y) /\ Dropped(m) /\ ReceivedCreated(y) = {}

\* A state C21 as stated excludes for good: the event of a successful Create
\* was enqueued, its write failed, and the broker has no message for it.
C21_LostWithoutFullQueue ==
    \E n \in 1..MaxCalls, id \in KnownIDs :
        /\ CreateReturned(n, id) /\ ~Dropped(n) /\ WriteFailed(n)
        /\ ReceivedCreated(id) = {}

-----------------------------------------------------------------------------
(* Claims about the server's Start and Stop (SpecServer, SpecServerFair).  *)

\* The step in which Start returns.
StartReturns == server.start = "running" /\ server'.start = "returned"

\* C24: when a listener failed to bind, Start returns an error, and at the
\* moment it returns neither listener is accepting calls.
C24_FailFastNoPartialReadiness ==
    [][(StartReturns /\ server'.bindFailed # {})
          => /\ server'.startErr # Nil
             /\ \A t \in Transports : ~Accepting(t)']_vars

\* A state C24 excludes: Start has returned the bind error of one listener
\* while the other listener accepts calls.
C24_PartialReadiness ==
    /\ server.start = "returned" /\ server.startErr # Nil
    /\ server.bindFailed # {}
    /\ \E t \in Transports : Accepting(t)

\* C25: Stop always returns, and when it has returned neither listener
\* accepts calls, whether or not a call in flight ever completes.
C25_StopAlwaysReturns ==
    /\ (server.stop # "idle") ~> (server.stop = "returned")
    /\ [](server.stop = "returned" => \A t \in Transports : ~Accepting(t))

\* A state in which C25 fails for good: Stop waits in GracefulStop for an
\* RPC that never completes, after its context has expired.
C25_StopBlocked ==
    /\ server.stop = "graceful" /\ server.ctxExpired
    /\ server.inflight["rpc"] = {"stuck"}

\* Stop was called while both listeners were accepting calls.
StoppedWhileServing == server.stop # "idle" /\ server.stoppedWhileServing

\* When Start has returned after such a Stop: nil, both loops ended, the
\* gRPC listener closed.
ReturnedNil ==
    /\ server.start = "returned" /\ server.startErr = Nil
    /\ server.grpc = "done" /\ server.http = "done"
    /\ server.lis["rpc"] = "closed"

-----------------------------------------------------------------------------
(* Claims about the handlers' error mapping (SpecHandlers).                *)

\* The handler call in slot s has returned the mapping of a service error.
MappedError(s) ==
    /\ calls[s].via = "handler" /\ calls[s].pc = "done"
    /\ calls[s].svcCalled /\ calls[s].err # NoError

\* The error at the bottom of the chain: what was wrapped.
Innermost(err) == err[Len(err)]

\* C22: the status code of a service error follows the tag of the error at
\* the bottom of its chain, however many times it was wrapped: NotFound
\* gives NotFound, DuplicateName AlreadyExists, InvalidInput
\* InvalidArgument, and an error with no tag Internal.
C22_MappedByTag ==
    \A s \in Slots :
        MappedError(s) =>
            LET tag == Innermost(calls[s].err) IN
            /\ tag = ErrNotFound => calls[s].code = CodeNotFound
            /\ tag = ErrDuplicateName => calls[s].code = CodeAlreadyExists
            /\ tag = ErrInvalidInput => calls[s].code = CodeInvalidArgument
            /\ tag \in UntaggedErrors => calls[s].code = CodeInternal

\* C22 witness: a DuplicateName error wrapped twice was mapped to
\* AlreadyExists.
C22_Witness ==
    \E s \in Slots :
        /\ MappedError(s)
        /\ Len(calls[s].err) = 3
        /\ Innermost(calls[s].err) = ErrDuplicateName
        /\ calls[s].code = CodeAlreadyExists

\* The texts of err that the message msg repeats.
Leaked(msg, err) == {i \in DOMAIN err : \E k \in DOMAIN msg : msg[k] = err[i]}

\* C23: the message of an Internal status is generic: it is the message any
\* other untagged error gets, and no text of the underlying error is in it.
C23_InternalMessageGeneric ==
    \A s \in Slots :
        (MappedError(s) /\ calls[s].code = CodeInternal) =>
            /\ \A other \in ServiceErrors :
                  MapServiceError(other) = CodeInternal
                      => StatusMessage(other) = calls[s].msg
            /\ Leaked(calls[s].msg, calls[s].err) = {}

-----------------------------------------------------------------------------
(* Claims about the producer (SpecEmitter).                                *)

\* The step is a Produce call.
ProduceRuns == Len(produced') = Len(produced) + 1
Latest == produced'[Len(produced')]

Warning(g) == [call |-> g.call, event_type |-> g.Type, company_id |-> g.Company.ID]

\* C16: Produce never blocks and the queue never holds more than its
\* capacity; a Produce called with the queue full drops the new event,
\* leaves the queued events and their order as they were, and records a
\* warning with the event type and the record identifier.
C16_ProduceNeverBlocksNorOverfills ==
    /\ [](Len(events) <= QueueCapacity)
    /\ [](\A g \in spawned : ENABLED Produce(g.call))
    /\ [][(ProduceRuns /\ Len(events) = QueueCapacity)
             => /\ events' = events
                /\ Warning(Latest) \notin warnings
                /\ warnings' = warnings \cup {Warning(Latest)}
                /\ Latest \in spawned /\ Latest \notin spawned']_vars

\* C16 witness: the queue is full and a Produce call has dropped its event.
C16_Witness ==
    /\ Len(events) = QueueCapacity
    /\ \E i \in DOMAIN produced :
          /\ Dropped(produced[i].call)
          /\ \A j \in DOMAIN events : events[j] # produced[i]

\* The worker has taken no event off the queue yet.
NothingConsumed ==
    /\ writer.writes = <<>>
    /\ worker.event = NoEvent
    /\ \A l \in errlog : l.msg # "Failed to serialize event"

Min(a, b) == IF a < b THEN a ELSE b
Max(a, b) == IF a < b THEN b ELSE a

\* C17 as stated: when more events are produced than the queue holds while
\* the worker consumes nothing, the oldest events are the ones dropped (the
\* queue holds the newest), and Produce neither blocks nor fails.
C17_OldestDroppedAsStated ==
    NothingConsumed =>
        /\ events = SubSeq(produced, Max(1, Len(produced) - QueueCapacity + 1),
                           Len(produced))
        /\ \A g \in spawned : ENABLED Produce(g.call)

\* C17 amended: when more events are produced than the queue holds while the
\* worker consumes nothing, the queue keeps the oldest events in their order
\* and the events that arrived on the full queue, the newest, are the ones
\* dropped; Produce neither blocks nor fails.
C17_NewestDropped ==
    NothingConsumed =>
        /\ events = SubSeq(produced, 1, Min(QueueCapacity, Len(produced)))
        /\ \A i \in DOMAIN produced : Dropped(produced[i].call) <=> i > QueueCapacity
        /\ \A g \in spawned : ENABLED Produce(g.call)

\* C17 witness: more events were produced than the queue holds and the worker
\* has consumed none.
C17_Witness ==
    /\ NothingConsumed
    /\ Len(produced) > QueueCapacity
    /\ Len(events) = QueueCapacity

\* The place of call n's event in the order of the Produce calls.
Position(n) == CHOOSE i \in DOMAIN produced : produced[i].call = n

\* C18: the worker hands events to the broker writer one at a time and in
\* the order they entered the queue: of two writes the earlier one carries
\* the event enqueued first and has completed before the later is issued;
\* only events the queue accepted are written.
C18_WritesInQueueOrder ==
    /\ \A i, j \in DOMAIN writer.writes :
          i < j => /\ Position(writer.writes[i].call) < Position(writer.writes[j].call)
                   /\ writer.writes[i].status \in Outcomes
    /\ \A i \in DOMAIN writer.writes :
          /\ \E k \in DOMAIN produced : produced[k].call = writer.writes[i].call
          /\ ~Dropped(writer.writes[i].call)

\* C18 witness: two events were written one after the other.
C18_Witness ==
    /\ Len(writer.writes) >= 2
    /\ writer.writes[1].status = "ok"
    /\ writer.writes[2].status = "ok"

\* The WriteMessages calls that carry the event of call n.
Writes(n) == {i \in DOMAIN writer.writes : writer.writes[i].call = n}
Queued(n) == {k \in DOMAIN events : events[k].call = n}

\* C19: delivery is at-most-once: an event leads to at most one WriteMessages
\* call; an event whose write failed, or that was handed to the writer at
\* all, is not on the queue any more and is never written again.
C19_AtMostOnce ==
    \A n \in 1..MaxCalls :
        /\ Cardinality(Writes(n)) <= 1
        /\ Cardinality(Queued(n)) <= 1
        /\ Queued(n) # {} =>
              /\ Writes(n) = {}
              /\ worker.event.call # n
              /\ ~MarshalFailed(n) /\ ~WriteFailed(n) /\ ~Dropped(n)
        /\ WriteFailed(n) =>
              /\ worker.event.call # n
              /\ \A i \in Writes(n) : writer.writes[i].status = "error"
        /\ (worker.event.call = n /\ worker.pc = "send") => Writes(n) = {}
        /\ (worker.event.call = n /\ worker.pc = "write") =>
              Writes(n) = {Len(writer.writes)}

\* C19 witness: the write of one event failed and the worker has gone on to
\* write the next one.
C19_Witness ==
    /\ Len(writer.writes) >= 2
    /\ writer.writes[1].status = "error"
    /\ WriteFailed(writer.writes[1].call)
    /\ writer.writes[2].status = "ok"

\* The step in which the worker takes the event of call n off the queue and
\* returns to its select without handing it to the writer, or logs that it
\* could not serialize it.
SerializationFails(n) ==
    \/ /\ events # <<>> /\ Head(events).call = n
       /\ events' = Tail(events)
       /\ worker'.pc = "select"
    \/ ~MarshalFailed(n) /\ MarshalFailed(n)'

\* C33: when serializing a dequeued event fails, the event has left the
\* queue, no WriteMessages call is made for it in that step or later, the
\* worker is back at its select without it, and the error logged names the
\* identifier of the event's record.
C33_SerializationFailureDiscards ==
    /\ [][\A n \in 1..MaxCalls :
            SerializationFails(n) =>
                /\ events # <<>> /\ Head(events).call = n
                /\ events' = Tail(events)
                /\ writer' = writer
                /\ worker'.pc = "select" /\ worker'.event = NoEvent
                /\ errlog' = errlog \cup
                       {[msg |-> "Failed to serialize event", call |-> n,
                         company_id |-> Head(events).Company.ID]}]_vars
    /\ [](\A n \in 1..MaxCalls :
            MarshalFailed(n) =>
                /\ Writes(n) = {}
                /\ Queued(n) = {}
                /\ worker.event.call # n)

\* C33 witness: the serialization of one event has failed and the worker
\* has written the event queued behind it.
C33_Witness ==
    \E n, m \in 1..MaxCalls :
        /\ MarshalFailed(n) /\ Writes(n) = {}
        /\ \E i \in Writes(m) : writer.writes[i].status = "ok"
        /\ \E i, k \in DOMAIN produced :
              i < k /\ produced[i].call = n /\ produced[k].call = m

\* The worker is done with the event of call n: it discarded it on a
\* serialization failure, or its WriteMessages call has returned.
Processed(n) ==
    \/ MarshalFailed(n)
    \/ \E i \in Writes(n) : writer.writes[i].status \in Outcomes

\* C34: the worker does not stop while closeChan is open, whatever failed
\* before; and every event on the queue is eventually processed, or Close
\* is called first.
C34_WorkerSurvivesFailures ==
    /\ [](worker.pc = "stopped" => closeChan = "closed")
    /\ \A n \in 1..MaxCalls :
          (Queued(n) # {}) ~> (Processed(n) \/ closeChan = "closed")

\* C34 witness: with closeChan open, an event that was queued behind one
\* whose serialization failed and one whose write failed has been written.
C34_Witness ==
    /\ closeChan = "open"
    /\ Len(produced) = 3
    /\ MarshalFailed(produced[1].call)
    /\ WriteFailed(produced[2].call)
    /\ \E i \in Writes(produced[3].call) : writer.writes[i].status = "ok"
    /\ warnings = {}

\* The broker took a message of call n.
Written(n) == \E i \in Writes(n) : writer.writes[i].status = "ok"

\* C39: after Close, Produce can run and returns in every state of the
\* queue, putting the event on the queue or logging the drop; and an event
\* whose Produce ran after Close is never written to the broker.
C39_ProduceAfterClose ==
    /\ [](closeChan = "closed" => \A g \in spawned : ENABLED Produce(g.call))
    /\ [][\A n \in 1..MaxCalls :
            (closeChan = "closed" /\ Pending(n) # {} /\ Pending(n)' = {}) =>
                IF Len(events) < QueueCapacity
                THEN Len(events') = Len(events) + 1 /\ warnings' = warnings
                ELSE events' = events /\ Dropped(n)']_vars
    /\ \A n \in 1..MaxCalls :
          []((closeChan = "closed" /\ Pending(n) # {}) => [](~Written(n)))

\* C20: once Close has closed closeChan the worker takes nothing more off
\* the queue, so no event queued at that moment is written; no WriteMessages
\* call is issued after the writer's Close; the writer's Close comes after
\* the signal, and its error is logged and changes nothing else.
C20_CloseStopsTheWorker ==
    /\ [](~worker.afterClose)
    /\ [](\A i \in DOMAIN writer.writes :
            /\ ~writer.writes[i].queuedAtClose
            /\ ~writer.writes[i].writerClosed)
    /\ [](writer.closed => closeChan = "closed")
    /\ [][(writer.closed' /\ ~writer.closed)
             => /\ errlog' \in {errlog,
                                errlog \cup {LogError("Failed to close Kafka writer",
                                                      NoEvent)}}
                /\ UNCHANGED <<events, worker, closeChan, spawned, produced>>]_vars

\* A state C20 excludes: an event that was on the queue when closeChan was
\* closed has been written to the broker.
C20_WrittenAfterClose ==
    \E i \in DOMAIN writer.writes :
        writer.writes[i].queuedAtClose /\ writer.writes[i].status = "ok"

\* A state C20 excludes: WriteMessages was called on the closed writer.
C20_WriteOnClosedWriter ==
    \E i \in DOMAIN writer.writes : writer.writes[i].writerClosed

====
